---- MODULE Spec2Model ----
(***************************************************************************)
(* Turn/state engine of the card drafting game.                            *)
(*                                                                         *)
(* The state is the Game component's React state (gameState, isDiscardMode,*)
(* discardActionAmount, achievementClaimedThisRound) and its config prop.  *)
(* Every action is one call of a handler of the Game component             *)
(* (src/app/components/game.tsx) or of a function of the game-logic module *)
(* (src/app/game-logic) applied to the current state.  A handler is        *)
(* modelled as it is written: the `disabled` attributes of the buttons in  *)
(* the presentation components are not part of a handler.  A state updater *)
(* passed to setGameState runs once per call.                              *)
(*                                                                         *)
(* JavaScript objects that the code shares between the previous and the    *)
(* next state (cards, projects, awards, hands, resource maps) are mutated  *)
(* in place by the handlers; the model gives the contents reachable from   *)
(* the state value the handler leaves behind, on every return path.        *)
(***************************************************************************)
EXTENDS Integers, Sequences, FiniteSets, TLC

VARIABLES config, gameState, isDiscardMode, discardActionAmount,
          achievementClaimedThisRound, lastOp, generation

vars == <<config, gameState, isDiscardMode, discardActionAmount,
          achievementClaimedThisRound, lastOp, generation>>

\* null / undefined
None == "none"

\* the null of a player id (winner, claimedBy, sponsoredBy, lastOwnerId)
NoPlayer == -1

(***************************************************************************)
(* Bounds of the model.                                                    *)
(***************************************************************************)
\* handlers are called during the first MaxTurns turns of the game
MaxTurns == 4
\* drawCard and performInnateAction are called while the current player's
\* actionPoints > -MaxDebt
MaxDebt == 0
\* drawCards is called with a count of 1..MaxDraw
MaxDraw == 3
\* generateCards is called with a totalCards of 1..MaxTotalCards
MaxTotalCards == 8
\* configurations have 1..MaxResourceTypes resource types
MaxResourceTypes == 4

(***************************************************************************)
(* Resource types.                                                         *)
(***************************************************************************)
AllResourceTypes ==
  <<"wood", "brick", "stone", "wheat", "sheep", "iron", "gold", "gem", "fish", "oil">>

\* allResourceTypes.slice(0, config.resourceTypes): a count past the end of
\* the array gives the whole array
ActiveTypes(n) == { AllResourceTypes[i] : i \in (1..n) \cap DOMAIN AllResourceTypes }

\* Object.fromEntries(types.map((type) => [type, 0]))
ZeroMap(types) == [t \in types |-> 0]

\* a map with no entries, e.g. cost: {}
EmptyMap == [t \in {} |-> 0]

\* m[t] >= n in JavaScript: false when m has no entry for t (undefined >= n)
AtLeast(m, t, n) == t \in DOMAIN m /\ m[t] >= n

\* splice(i, 1) on a 1-based sequence
RemoveAt(s, i) == SubSeq(s, 1, i - 1) \o SubSeq(s, i + 1, Len(s))

\* the elements of an array
Range(s) == { s[i] : i \in DOMAIN s }

(***************************************************************************)
(* The configuration and the generated deck.                               *)
(***************************************************************************)
GameConfig ==
  [ resourceTypes      |-> 3,
    players            |-> 2,
    suits              |-> 3,
    totalCards         |-> 4,
    startingHand       |-> 1,
    innateActionCount  |-> 0,
    actionPointsPerTurn |-> 3,
    drawCardCount      |-> 1,
    discardCardCount   |-> 0,
    discardChoice      |-> TRUE ]

\* tier of the card with a given id, as generateCards assigns it
CardTier(totalCards, id) ==
  LET cardsPerTier == totalCards \div 3
  IN IF id < cardsPerTier THEN 0
     ELSE IF id < 2 * cardsPerTier THEN 1
     ELSE 2

\* One deck generateCards can produce for GameConfig: the random draws of
\* generateCardForTier are fixed to these outcomes.
\*   0: tier 0, cost weight 0, reward weight 5
\*   1: tier 1, cost weight 3, reward weight 10, factory grant brick = 1
\*   2: tier 2, cost weight 12, reward weight 8, bonus action (-3)
\*   3: tier 2, cost weight 12, reward weight 15, 5 victory points (-10)
Deck ==
  << [ id |-> 0, suit |-> 0, cost |-> EmptyMap,
       resources |-> ("wood" :> 5), victoryPoints |-> 0,
       innateAction |-> FALSE, isFactory |-> FALSE ],
     [ id |-> 1, suit |-> 1, cost |-> ("wood" :> 3),
       resources |-> ("wood" :> 10 @@ "brick" :> 1), victoryPoints |-> 0,
       innateAction |-> FALSE, isFactory |-> TRUE ],
     [ id |-> 2, suit |-> 2, cost |-> ("wood" :> 12),
       resources |-> ("stone" :> 5), victoryPoints |-> 0,
       innateAction |-> TRUE, isFactory |-> FALSE ],
     [ id |-> 3, suit |-> 0, cost |-> ("wood" :> 12),
       resources |-> ("brick" :> 5), victoryPoints |-> 5,
       innateAction |-> FALSE, isFactory |-> FALSE ] >>

CardIds == { Deck[i].id : i \in DOMAIN Deck }

\* the card object with a given id
Card(id) == Deck[id + 1]

(***************************************************************************)
(* Construction of the initial state.                                      *)
(***************************************************************************)
ProjectIds == 1..5
AwardIds == 1..5

\* the 8 fixed sponsorship cost options
SponsorCosts ==
  << [type |-> "resource", amount |-> 10, resourceType |-> "wood"],
     [type |-> "resource", amount |-> 8, resourceType |-> "stone"],
     [type |-> "resource", amount |-> 6, resourceType |-> "brick"],
     [type |-> "factory", amount |-> 3, resourceType |-> "wood"],
     [type |-> "factory", amount |-> 2, resourceType |-> "stone"],
     [type |-> "factory", amount |-> 2, resourceType |-> "brick"],
     [type |-> "discard", amount |-> 3, resourceType |-> None],
     [type |-> "discard", amount |-> 4, resourceType |-> None] >>

\* the outcomes of Math.floor(Math.random() * sponsorCosts.length) the model
\* follows: one cost of each type
SponsorCostSample == {1, 4, 7}

\* sponsorCosts[Math.floor(Math.random() * sponsorCosts.length)]
RandomSponsorCost == { SponsorCosts[i] : i \in SponsorCostSample }

\* the achievements generateAchievements can return, for the sampled costs
generateAchievements ==
  { [ projects |-> [p \in ProjectIds |-> [claimed |-> FALSE, claimedBy |-> NoPlayer]],
      awards |-> [a \in AwardIds |-> [sponsored |-> FALSE, sponsoredBy |-> NoPlayer]],
      sponsorCost |-> c,
      claimedProjects |-> 0,
      sponsoredAwards |-> 0 ] : c \in RandomSponsorCost }

\* players whose maps have an entry for every resource type of the game
createInitialPlayers_AllTypes(cfg) ==
  [ i \in 0..(cfg.players - 1) |->
      [ id |-> i,
        hand |-> <<>>,
        playedCards |-> <<>>,
        resources |-> ZeroMap(Range(AllResourceTypes)),
        factories |-> ZeroMap(Range(AllResourceTypes)),
        victoryPoints |-> 0,
        actionPoints |-> cfg.actionPointsPerTurn,
        achievementPoints |-> 0 ] ]

\* the players before the deal
createInitialPlayers(cfg) ==
  [ i \in 0..(cfg.players - 1) |->
      [ id |-> i,
        hand |-> <<>>,
        playedCards |-> <<>>,
        resources |-> ZeroMap(ActiveTypes(cfg.resourceTypes)),
        factories |-> ZeroMap(ActiveTypes(cfg.resourceTypes)),
        victoryPoints |-> 0,
        actionPoints |-> cfg.actionPointsPerTurn,
        achievementPoints |-> 0 ] ]

\* the outcomes of `count` iterations of: if the pool is not empty, move a
\* card at a random index of the pool to the end of the hand
RECURSIVE DrawLoop(_, _, _)
DrawLoop(pool, hand, count) ==
  IF count = 0 \/ Len(pool) = 0
  THEN { [pool |-> pool, hand |-> hand] }
  ELSE UNION { DrawLoop(RemoveAt(pool, i), Append(hand, pool[i]), count - 1) :
               i \in 1..Len(pool) }

\* a deal in which every player draws from the full pool
RECURSIVE DealFrom_FromFullPool(_, _, _, _)
DealFrom_FromFullPool(pool, players, i, startingHandSize) ==
  IF i \notin DOMAIN players
  THEN { [updatedCardPool |-> pool, updatedPlayers |-> players] }
  ELSE UNION { DealFrom_FromFullPool(pool, [players EXCEPT ![i].hand = d.hand],
                                     i + 1, startingHandSize) :
               d \in DrawLoop(pool, <<>>, startingHandSize) }

\* the outcomes of dealing startingHandSize cards to players i..n-1 in turn
RECURSIVE DealFrom(_, _, _, _)
DealFrom(pool, players, i, startingHandSize) ==
  IF i \notin DOMAIN players
  THEN { [updatedCardPool |-> pool, updatedPlayers |-> players] }
  ELSE UNION { DealFrom(d.pool, [players EXCEPT ![i].hand = d.hand],
                        i + 1, startingHandSize) :
               d \in DrawLoop(pool, <<>>, startingHandSize) }

dealStartingHands(cardPool, players, startingHandSize) ==
  DealFrom(cardPool, players, 0, startingHandSize)

\* generateCards without the loop that adds the remaining cards
generateCardTiers_NoRemainder(totalCards) ==
  LET cardsPerTier == totalCards \div 3
      TierCards(tier) ==
        [ i \in 1..cardsPerTier |-> [id |-> tier * cardsPerTier + (i - 1), tier |-> tier] ]
  IN TierCards(0) \o TierCards(1) \o TierCards(2)

\* the id and tier generateCards passes to generateCardForTier for each card,
\* in generation order
generateCardTiers(totalCards) ==
  LET cardsPerTier == totalCards \div 3
      TierCards(tier) ==
        [ i \in 1..cardsPerTier |-> [id |-> tier * cardsPerTier + (i - 1), tier |-> tier] ]
      cards == TierCards(0) \o TierCards(1) \o TierCards(2)
  IN cards \o [ i \in 1..(totalCards - Len(cards)) |->
                  [id |-> Len(cards) + (i - 1), tier |-> 2] ]

\* the ids of the generated cards, in generation order
generateCards(cfg) ==
  [ i \in DOMAIN generateCardTiers(cfg.totalCards) |-> generateCardTiers(cfg.totalCards)[i].id ]

\* the deals of the starting hands
Deals(cfg) ==
  dealStartingHands(generateCards(cfg), createInitialPlayers(cfg), cfg.startingHand)

\* the states the initialisation produces from these deals and achievements
InitialGameStates(deals, achievements) ==
  { [ cardPool |-> d.updatedCardPool,
      players |-> d.updatedPlayers,
      currentPlayer |-> 0,
      round |-> 1,
      winner |-> NoPlayer,
      achievements |-> a,
      lastOwnerId |-> [c \in CardIds |-> NoPlayer] ] :
    d \in deals, a \in achievements }

\* game-logic createInitialGameState(config, resourceTypes): the states it
\* can return
createInitialGameState(cfg) == InitialGameStates(Deals(cfg), generateAchievements)

\* the call of generateInnateActions: where it is (pc), its loop counter i,
\* the actions pushed so far, and the source type a convert action has drawn;
\* this is its value when no call is running
NotGenerating ==
  [pc |-> "idle", i |-> 0, actions |-> <<>>, sourceResourceType |-> None]

\* the React state after the initialisation effect, for given game states
InitFrom(states) ==
  /\ config = GameConfig
  /\ gameState \in states
  /\ isDiscardMode = FALSE
  /\ discardActionAmount = 0
  /\ achievementClaimedThisRound = FALSE
  /\ lastOp = [op |-> "init", branch |-> None]
  /\ generation = NotGenerating

\* configurations with three and with seven generated innate actions
ActionsConfig == [GameConfig EXCEPT !.innateActionCount = 3]
ButtonsConfig == [GameConfig EXCEPT !.innateActionCount = 7]

\* configurations of three cards that draw two cards: then two discards chosen by the
\* player, or no discard, or three discards made automatically
DrawTwoConfig == [GameConfig EXCEPT !.totalCards = 3, !.drawCardCount = 2]
DiscardChoiceConfig ==
  [DrawTwoConfig EXCEPT !.discardCardCount = 2, !.discardChoice = TRUE]
AutoDiscardConfig ==
  [DrawTwoConfig EXCEPT !.discardCardCount = 3, !.discardChoice = FALSE]

\* the configuration whose generated innate actions end with the exchange
ExchangeConfig == [GameConfig EXCEPT !.innateActionCount = 5]

\* as InitFrom, for a given configuration
InitWith(cfg, states) ==
  /\ config = cfg
  /\ gameState \in states
  /\ isDiscardMode = FALSE
  /\ discardActionAmount = 0
  /\ achievementClaimedThisRound = FALSE
  /\ lastOp = [op |-> "init", branch |-> None]
  /\ generation = NotGenerating

\* every deal of the starting hands; the sponsorship cost, which no action
\* of Spec reads, is the first of the sampled ones
Init ==
  InitFrom(InitialGameStates(
             Deals(GameConfig),
             { a \in generateAchievements : a.sponsorCost = SponsorCosts[1] }))

\* every sampled sponsorship cost; the deal is the one where player 0 holds
\* card 0, player 1 holds card 3 and the pool keeps cards 1 and 2
InitAchievements ==
  InitFrom(InitialGameStates(
             { d \in Deals(GameConfig) :
                 d.updatedPlayers[0].hand = <<0>> /\ d.updatedCardPool = <<1, 2>> },
             generateAchievements))

(***************************************************************************)
(* Card play.                                                              *)
(***************************************************************************)
\* Object.entries(card.cost).every(([type, amount]) => resources[type] >= amount)
canAfford(player, card) ==
  \A t \in DOMAIN card.cost : AtLeast(player.resources, t, card.cost[t])

\* Object.entries(cost).forEach(([type, amount]) => resources[type] -= amount)
DeductCost(resources, cost) ==
  [ t \in DOMAIN resources |->
      IF t \in DOMAIN cost THEN resources[t] - cost[t] ELSE resources[t] ]

\* Object.entries(add).forEach(([type, amount]) => m[type] = (m[type] || 0) + amount)
AddAmounts(m, add) ==
  [ t \in (DOMAIN m) \cup (DOMAIN add) |->
      (IF t \in DOMAIN m THEN m[t] ELSE 0) + (IF t \in DOMAIN add THEN add[t] ELSE 0) ]

\* the guard of both playCard implementations: the card is in the current
\* player's hand, the player has an action point and can pay the cost
canPlay(gs, cardId) ==
  LET currentPlayer == gs.players[gs.currentPlayer]
  IN /\ cardId \in Range(currentPlayer.hand)
     /\ currentPlayer.actionPoints > 0
     /\ canAfford(currentPlayer, Card(cardId))

\* game-logic: rewards, victory points, action point and bonus action
applyCardRewards(player, card) ==
  LET rewarded ==
        IF card.isFactory
        THEN [player EXCEPT !.factories = AddAmounts(@, card.resources)]
        ELSE [player EXCEPT !.resources = AddAmounts(@, card.resources)]
      spent == [rewarded EXCEPT !.victoryPoints = @ + card.victoryPoints,
                                !.actionPoints = @ - 1]
  IN IF card.innateAction
     THEN [spent EXCEPT !.actionPoints = @ + 1]
     ELSE spent

\* game-logic playCard(gameState, cardId)
playCard(gs, cardId) ==
  LET cur == gs.currentPlayer
      currentPlayer == gs.players[cur]
  IN IF cardId \notin Range(currentPlayer.hand) \/ currentPlayer.actionPoints <= 0
     THEN gs
     ELSE IF ~canAfford(currentPlayer, Card(cardId))
     THEN gs
     ELSE LET moved == [currentPlayer EXCEPT
                          !.hand = SelectSeq(@, LAMBDA c : c # cardId),
                          !.playedCards = Append(@, cardId),
                          !.resources = DeductCost(@, Card(cardId).cost)]
              updatedPlayer == applyCardRewards(moved, Card(cardId))
              updatedPlayers == [gs.players EXCEPT ![cur] = updatedPlayer]
          IN IF updatedPlayer.victoryPoints + updatedPlayer.achievementPoints >= 10
             THEN [gs EXCEPT !.players = updatedPlayers, !.winner = updatedPlayer.id]
             ELSE [gs EXCEPT !.players = updatedPlayers]

\* Game_playCardEffect with every reward added to the resources
Game_playCardEffect_RewardToResources(player, card) ==
  LET moved == [player EXCEPT
                  !.hand = SelectSeq(@, LAMBDA c : c # card.id),
                  !.playedCards = Append(@, card.id),
                  !.resources = DeductCost(@, card.cost)]
      rewarded == [moved EXCEPT !.resources = AddAmounts(@, card.resources)]
      spent == [rewarded EXCEPT !.victoryPoints = @ + card.victoryPoints,
                                !.actionPoints = @ - 1]
  IN IF card.innateAction
     THEN [spent EXCEPT !.actionPoints = @ + 1]
     ELSE spent

\* Game component: the player after the body of `if (canAfford)`
Game_playCardEffect(player, card) ==
  LET moved == [player EXCEPT
                  !.hand = SelectSeq(@, LAMBDA c : c # card.id),
                  !.playedCards = Append(@, card.id),
                  !.resources = DeductCost(@, card.cost)]
      rewarded ==
        IF card.isFactory
        THEN [moved EXCEPT !.factories = AddAmounts(@, card.resources)]
        ELSE [moved EXCEPT !.resources = AddAmounts(@, card.resources)]
      spent == [rewarded EXCEPT !.victoryPoints = @ + card.victoryPoints,
                                !.actionPoints = @ - 1]
  IN IF card.innateAction
     THEN [spent EXCEPT !.actionPoints = @ + 1]
     ELSE spent

\* Game_playCard with the win check on the victory points alone
Game_playCard_VictoryPointsOnly(prev, cardId) ==
  LET cur == prev.currentPlayer
      currentPlayer == prev.players[cur]
      updatedPlayer ==
        IF cardId \in Range(currentPlayer.hand) /\ currentPlayer.actionPoints > 0
        THEN IF canAfford(currentPlayer, Card(cardId))
             THEN Game_playCardEffect(currentPlayer, Card(cardId))
             ELSE currentPlayer
        ELSE currentPlayer
      updatedPlayers == [prev.players EXCEPT ![cur] = updatedPlayer]
  IN IF updatedPlayer.victoryPoints >= 10
     THEN [prev EXCEPT !.players = updatedPlayers, !.winner = updatedPlayer.id]
     ELSE [prev EXCEPT !.players = updatedPlayers]

\* Game_playCard with the win check passed by any positive score
Game_playCard_AnyScoreWins(prev, cardId) ==
  LET cur == prev.currentPlayer
      currentPlayer == prev.players[cur]
      updatedPlayer ==
        IF cardId \in Range(currentPlayer.hand) /\ currentPlayer.actionPoints > 0
        THEN IF canAfford(currentPlayer, Card(cardId))
             THEN Game_playCardEffect(currentPlayer, Card(cardId))
             ELSE currentPlayer
        ELSE currentPlayer
      updatedPlayers == [prev.players EXCEPT ![cur] = updatedPlayer]
  IN IF updatedPlayer.victoryPoints + updatedPlayer.achievementPoints >= 1
     THEN [prev EXCEPT !.players = updatedPlayers, !.winner = updatedPlayer.id]
     ELSE [prev EXCEPT !.players = updatedPlayers]

\* Game component: the updater of playCard(cardId)
Game_playCard(prev, cardId) ==
  LET cur == prev.currentPlayer
      currentPlayer == prev.players[cur]
      updatedPlayer ==
        IF cardId \in Range(currentPlayer.hand) /\ currentPlayer.actionPoints > 0
        THEN IF canAfford(currentPlayer, Card(cardId))
             THEN Game_playCardEffect(currentPlayer, Card(cardId))
             ELSE currentPlayer
        ELSE currentPlayer
      updatedPlayers == [prev.players EXCEPT ![cur] = updatedPlayer]
  IN IF updatedPlayer.victoryPoints + updatedPlayer.achievementPoints >= 10
     THEN [prev EXCEPT !.players = updatedPlayers, !.winner = updatedPlayer.id]
     ELSE [prev EXCEPT !.players = updatedPlayers]

(***************************************************************************)
(* End of turn.                                                            *)
(***************************************************************************)
\* Produce with one unit for each resource type that has a factory
Produce_OnePerType(player) ==
  [ player EXCEPT !.resources =
      [ t \in DOMAIN player.resources |->
          player.resources[t] +
          (IF t \in DOMAIN player.factories /\ player.factories[t] > 0 THEN 1 ELSE 0) ] ]

\* resources after one factory production
Produce(player) ==
  [ player EXCEPT !.resources =
      [ t \in DOMAIN player.resources |->
          player.resources[t] +
          (IF t \in DOMAIN player.factories THEN player.factories[t] ELSE 0) ] ]

\* nextTurn with the action points of every player reset
nextTurn_ResetAll(gs, cfg) ==
  LET nextPlayer == (gs.currentPlayer + 1) % cfg.players
      nextRound == IF nextPlayer = 0 THEN gs.round + 1 ELSE gs.round
      reset == [ i \in DOMAIN gs.players |->
                   [gs.players[i] EXCEPT !.actionPoints = cfg.actionPointsPerTurn] ]
      updatedPlayers == IF nextPlayer = 0
                        THEN [ i \in DOMAIN reset |-> Produce(reset[i]) ]
                        ELSE reset
  IN [gs EXCEPT !.players = updatedPlayers,
                !.currentPlayer = nextPlayer,
                !.round = nextRound]

\* game-logic nextTurn(gameState, config)
nextTurn(gs, cfg) ==
  LET nextPlayer == (gs.currentPlayer + 1) % cfg.players
      nextRound == IF nextPlayer = 0 THEN gs.round + 1 ELSE gs.round
      reset == [ i \in DOMAIN gs.players |->
                   IF i = nextPlayer
                   THEN [gs.players[i] EXCEPT !.actionPoints = cfg.actionPointsPerTurn]
                   ELSE gs.players[i] ]
      updatedPlayers == IF nextPlayer = 0
                        THEN [ i \in DOMAIN reset |-> Produce(reset[i]) ]
                        ELSE reset
  IN [gs EXCEPT !.players = updatedPlayers,
                !.currentPlayer = nextPlayer,
                !.round = nextRound]

\* Game component: the updater of nextTurn()
Game_nextTurn(prev, cfg) ==
  LET nextPlayer == (prev.currentPlayer + 1) % cfg.players
      nextRound == IF nextPlayer = 0 THEN prev.round + 1 ELSE prev.round
      reset == [ i \in DOMAIN prev.players |->
                   IF i = nextPlayer
                   THEN [prev.players[i] EXCEPT !.actionPoints = cfg.actionPointsPerTurn]
                   ELSE prev.players[i] ]
      updatedPlayers == [ i \in DOMAIN reset |-> Produce(reset[i]) ]
  IN [prev EXCEPT !.players = updatedPlayers,
                  !.currentPlayer = nextPlayer,
                  !.round = nextRound]

(***************************************************************************)
(* Drawing.                                                                *)
(***************************************************************************)
\* an automatic discard that leaves the owner stamps as they were
RECURSIVE AutoDiscardLoop_Unstamped(_, _, _, _, _)
AutoDiscardLoop_Unstamped(pool, hand, owners, ownerId, count) ==
  IF count = 0 \/ Len(hand) = 0
  THEN { [pool |-> pool, hand |-> hand, lastOwnerId |-> owners] }
  ELSE UNION { AutoDiscardLoop_Unstamped(Append(pool, hand[i]), RemoveAt(hand, i),
                                         owners, ownerId, count - 1) :
               i \in 1..Len(hand) }

\* the outcomes of `count` iterations of: if the hand is not empty, move a
\* card at a random index of the hand to the end of the pool and stamp it
RECURSIVE AutoDiscardLoop(_, _, _, _, _)
AutoDiscardLoop(pool, hand, owners, ownerId, count) ==
  IF count = 0 \/ Len(hand) = 0
  THEN { [pool |-> pool, hand |-> hand, lastOwnerId |-> owners] }
  ELSE UNION { AutoDiscardLoop(Append(pool, hand[i]), RemoveAt(hand, i),
                               [owners EXCEPT ![hand[i]] = ownerId],
                               ownerId, count - 1) :
               i \in 1..Len(hand) }

\* Game component: the states the updater of drawCard() can return
Game_drawCard(prev, cfg) ==
  LET cur == prev.currentPlayer
      currentPlayer == prev.players[cur]
      drawn == DrawLoop(prev.cardPool, currentPlayer.hand, cfg.drawCardCount)
      discarded(d) ==
        IF cfg.discardCardCount > 0 /\ ~cfg.discardChoice
        THEN AutoDiscardLoop(d.pool, d.hand, prev.lastOwnerId, currentPlayer.id,
                             cfg.discardCardCount)
        ELSE { [pool |-> d.pool, hand |-> d.hand, lastOwnerId |-> prev.lastOwnerId] }
  IN { [prev EXCEPT !.cardPool = r.pool,
                    !.players[cur].hand = r.hand,
                    !.players[cur].actionPoints = @ - 1,
                    !.lastOwnerId = r.lastOwnerId] :
       r \in UNION { discarded(d) : d \in drawn } }

\* a drawCards that deducts one action point for every card drawn
drawCards_ActionPointPerCard(gs, drawCount) ==
  LET cur == gs.currentPlayer
      currentPlayer == gs.players[cur]
  IN IF Len(gs.cardPool) = 0
     THEN { [updatedState |-> gs, drawnCards |-> <<>>] }
     ELSE { [updatedState |-> [gs EXCEPT !.cardPool = d.pool,
                                         !.players[cur].hand = d.hand,
                                         !.players[cur].actionPoints =
                                            @ - (Len(d.hand) - Len(currentPlayer.hand))],
             drawnCards |-> SubSeq(d.hand, Len(currentPlayer.hand) + 1, Len(d.hand))] :
            d \in DrawLoop(gs.cardPool, currentPlayer.hand, drawCount) }

\* game-logic drawCards(gameState, drawCount): the results it can return
drawCards(gs, drawCount) ==
  LET cur == gs.currentPlayer
      currentPlayer == gs.players[cur]
  IN IF Len(gs.cardPool) = 0
     THEN { [updatedState |-> gs, drawnCards |-> <<>>] }
     ELSE { [updatedState |-> [gs EXCEPT !.cardPool = d.pool,
                                         !.players[cur].hand = d.hand,
                                         !.players[cur].actionPoints = @ - 1],
             drawnCards |-> SubSeq(d.hand, Len(currentPlayer.hand) + 1, Len(d.hand))] :
            d \in DrawLoop(gs.cardPool, currentPlayer.hand, drawCount) }

(***************************************************************************)
(* Discarding.                                                             *)
(***************************************************************************)
\* hand.findIndex((card) => card.id === cardId), 1-based; 0 when not found
FindIndex(hand, cardId) ==
  IF cardId \in Range(hand)
  THEN CHOOSE i \in DOMAIN hand :
         hand[i] = cardId /\ \A j \in DOMAIN hand : hand[j] = cardId => i <= j
  ELSE 0

\* a move to the pool that leaves the card's owner stamp as it was
MoveToPool_Unstamped(gs, cardIndex) ==
  LET cur == gs.currentPlayer
      discardedCard == gs.players[cur].hand[cardIndex]
  IN [gs EXCEPT !.players[cur].hand = RemoveAt(@, cardIndex),
                !.cardPool = Append(@, discardedCard)]

\* the hand, pool and owner stamps after the card at index cardIndex of the
\* current player's hand is spliced out, stamped and pushed to the pool
MoveToPool(gs, cardIndex) ==
  LET cur == gs.currentPlayer
      currentPlayer == gs.players[cur]
      discardedCard == currentPlayer.hand[cardIndex]
  IN [gs EXCEPT !.players[cur].hand = RemoveAt(@, cardIndex),
                !.lastOwnerId[discardedCard] = currentPlayer.id,
                !.cardPool = Append(@, discardedCard)]

\* game-logic discardCard(gameState, cardId)
discardCard(gs, cardId) ==
  LET cardIndex == FindIndex(gs.players[gs.currentPlayer].hand, cardId)
  IN IF cardIndex = 0 THEN gs ELSE MoveToPool(gs, cardIndex)

\* Game component: the updater of discardCard(cardId)
Game_discardCard(prev, cardId) ==
  LET cardIndex == FindIndex(prev.players[prev.currentPlayer].hand, cardId)
  IN IF cardIndex # 0 THEN MoveToPool(prev, cardIndex) ELSE prev

(***************************************************************************)
(* The argument of the game-logic functions after the call.  Each function *)
(* copies the current player with { ...currentPlayer }: the copy shares the*)
(* hand, playedCards, resources and factories objects with the argument.   *)
(***************************************************************************)
\* the contents of the gameState passed to playCard(gameState, cardId), after
\* the call: playedCards.push, resources -= cost and applyCardRewards write
\* to the shared objects; hand is replaced on the copy by filter(), and
\* victoryPoints and actionPoints are numbers of the copy
playCard_input(gs, cardId) ==
  LET cur == gs.currentPlayer
      returned == playCard(gs, cardId)
  IN IF ~canPlay(gs, cardId)
     THEN gs
     ELSE [gs EXCEPT !.players[cur].playedCards = returned.players[cur].playedCards,
                     !.players[cur].resources = returned.players[cur].resources,
                     !.players[cur].factories = returned.players[cur].factories]

\* the contents of the gameState passed to drawCards(gameState, drawCount),
\* after the call: hand.push writes to the shared hand, the pool is a copy
drawCards_input(gs, drawCount) ==
  { [gs EXCEPT !.players[gs.currentPlayer].hand =
                  r.updatedState.players[gs.currentPlayer].hand] :
    r \in drawCards(gs, drawCount) }

\* the contents of the gameState passed to discardCard(gameState, cardId),
\* after the call: hand.splice writes to the shared hand and lastOwnerId to
\* the card object, the pool is a copy
discardCard_input(gs, cardId) ==
  LET returned == discardCard(gs, cardId)
  IN [gs EXCEPT !.players[gs.currentPlayer].hand =
                   returned.players[gs.currentPlayer].hand,
                !.lastOwnerId = returned.lastOwnerId]

(***************************************************************************)
(* Projects and awards.                                                    *)
(***************************************************************************)
\* Project.isCompleted(player, gameState) of the five projects
isCompleted(projectId, player, gs) ==
  CASE projectId = 1 -> Len(player.playedCards) >= 6
    [] projectId = 2 ->
         Cardinality({ Card(player.playedCards[i]).suit :
                       i \in DOMAIN player.playedCards }) >= 3
    [] projectId = 3 -> AtLeast(player.resources, "stone", 10)
    [] projectId = 4 -> AtLeast(player.factories, "wood", 3)
    [] projectId = 5 ->
         Cardinality({ i \in DOMAIN gs.cardPool :
                       gs.lastOwnerId[gs.cardPool[i]] = player.id }) >= 8
    [] OTHER -> FALSE

\* the resource types the isCompleted of a project reads from the player's
\* resources or factories
projectResourceTypes(projectId) ==
  CASE projectId = 3 -> {"stone"}
    [] projectId = 4 -> {"wood"}
    [] OTHER -> {}

\* projectValue without the third tier
projectValue_TwoTiers(n) == IF n = 1 THEN 7 ELSE 5

\* achievement points of the n-th project claimed in the game
projectValue(n) == IF n = 1 THEN 7 ELSE IF n = 2 THEN 5 ELSE 3

\* Game_claimProject without the check that the project is unclaimed
Game_claimProject_NoClaimedCheck(prev, projectId) ==
  LET cur == prev.currentPlayer
      ach == prev.achievements
  IN IF projectId \in DOMAIN ach.projects
     THEN LET claimedProjects == ach.claimedProjects + 1
          IN [prev EXCEPT
                !.achievements.projects[projectId] =
                    [claimed |-> TRUE, claimedBy |-> cur],
                !.achievements.claimedProjects = claimedProjects,
                !.players[cur].achievementPoints = @ + projectValue(claimedProjects),
                !.players[cur].actionPoints = @ - 1]
     ELSE prev

\* Game component: the updater of claimProject(projectId)
Game_claimProject(prev, projectId) ==
  LET cur == prev.currentPlayer
      ach == prev.achievements
  IN IF projectId \in DOMAIN ach.projects /\ ~ach.projects[projectId].claimed
     THEN LET claimedProjects == ach.claimedProjects + 1
          IN [prev EXCEPT
                !.achievements.projects[projectId] =
                    [claimed |-> TRUE, claimedBy |-> cur],
                !.achievements.claimedProjects = claimedProjects,
                !.players[cur].achievementPoints = @ + projectValue(claimedProjects),
                !.players[cur].actionPoints = @ - 1]
     ELSE prev

\* Object.values(m).reduce((c, d) => c + d, 0)
RECURSIVE SumValues(_)
SumValues(m) ==
  IF DOMAIN m = {} THEN 0
  ELSE LET t == CHOOSE k \in DOMAIN m : TRUE
       IN m[t] + SumValues([k \in (DOMAIN m) \ {t} |-> m[k]])

\* Math.max(...playedCards.map((c) => c.suit ?? -1)); of no card it is
\* -Infinity, here a number below every suit and below -1
MaxSuit(player) ==
  IF Len(player.playedCards) = 0 THEN -2
  ELSE CHOOSE m \in { Card(player.playedCards[i]).suit : i \in DOMAIN player.playedCards } :
         \A i \in DOMAIN player.playedCards : Card(player.playedCards[i]).suit <= m

\* the quantity the award with a given id compares
Metric(awardId, player) ==
  CASE awardId = 1 -> Len(player.hand)
    [] awardId = 2 -> MaxSuit(player)
    [] awardId = 3 -> SumValues(player.resources)
    [] awardId = 4 -> SumValues(player.factories)
    [] awardId = 5 -> Len(player.playedCards)

\* a reduction that keeps the accumulator on a tie
RECURSIVE ReduceMax_KeepOnTie(_, _, _, _)
ReduceMax_KeepOnTie(awardId, players, a, b) ==
  IF b \notin DOMAIN players THEN a
  ELSE ReduceMax_KeepOnTie(awardId, players,
                           IF Metric(awardId, players[a]) >= Metric(awardId, players[b])
                           THEN a ELSE b,
                           b + 1)

\* players.reduce((a, b) => (metric(a) > metric(b) ? a : b)) from accumulator
\* a and next element b on, as the index of the player it returns
RECURSIVE ReduceMax(_, _, _, _)
ReduceMax(awardId, players, a, b) ==
  IF b \notin DOMAIN players THEN a
  ELSE ReduceMax(awardId, players,
                 IF Metric(awardId, players[a]) > Metric(awardId, players[b])
                 THEN a ELSE b,
                 b + 1)

\* awards[awardId - 1].evaluate(players)
evaluate(awardId, players) == ReduceMax(awardId, players, 0, 1)

\* canSponsorAward(cost, player) of the Achievements component
canSponsorAward(cost, player) ==
  CASE cost.type = "discard" -> Len(player.hand) >= cost.amount
    [] cost.type = "resource" -> AtLeast(player.resources, cost.resourceType, cost.amount)
    [] cost.type = "factory" -> AtLeast(player.factories, cost.resourceType, cost.amount)
    [] OTHER -> FALSE

\* the outcomes of `count` iterations of: if the hand is not empty, remove
\* the card at a random index of the hand
RECURSIVE SpliceLoop(_, _)
SpliceLoop(hand, count) ==
  IF count = 0 \/ Len(hand) = 0
  THEN { hand }
  ELSE UNION { SpliceLoop(RemoveAt(hand, i), count - 1) : i \in 1..Len(hand) }

\* the guard of sponsorAward's updater
canMarkAward(gs, awardId) ==
  /\ awardId \in DOMAIN gs.achievements.awards
  /\ ~gs.achievements.awards[awardId].sponsored
  /\ gs.achievements.sponsoredAwards < 3

\* Game_sponsorAward taking the action point and nothing else
Game_sponsorAward_KeepsCost(prev, awardId) ==
  LET cur == prev.currentPlayer
      currentPlayer == prev.players[cur]
      cost == prev.achievements.sponsorCost
      marked == [prev EXCEPT !.achievements.awards[awardId] =
                                 [sponsored |-> TRUE, sponsoredBy |-> cur]]
      paid(player) ==
        { [marked EXCEPT !.achievements.sponsoredAwards = @ + 1,
                         !.achievements.sponsorCost = c,
                         !.players[cur] = [player EXCEPT !.actionPoints = @ - 1]] :
          c \in RandomSponsorCost }
  IN IF ~canMarkAward(prev, awardId)
     THEN { prev }
     ELSE CASE cost.type = "discard" ->
                 paid(currentPlayer)
            [] cost.type = "resource" /\ cost.resourceType # None ->
                 IF AtLeast(currentPlayer.resources, cost.resourceType, cost.amount)
                 THEN paid(currentPlayer)
                 ELSE { marked }
            [] cost.type = "factory" /\ cost.resourceType # None ->
                 IF AtLeast(currentPlayer.factories, cost.resourceType, cost.amount)
                 THEN paid(currentPlayer)
                 ELSE { marked }
            [] OTHER -> paid(currentPlayer)

\* Game component: the states the updater of sponsorAward(awardId) can leave.
\* The award object is marked before the cost is looked at, and it is the
\* object the previous state holds: `return prev` keeps the mark.
Game_sponsorAward(prev, awardId) ==
  LET cur == prev.currentPlayer
      currentPlayer == prev.players[cur]
      cost == prev.achievements.sponsorCost
      marked == [prev EXCEPT !.achievements.awards[awardId] =
                                 [sponsored |-> TRUE, sponsoredBy |-> cur]]
      paid(player) ==
        { [marked EXCEPT !.achievements.sponsoredAwards = @ + 1,
                         !.achievements.sponsorCost = c,
                         !.players[cur] = [player EXCEPT !.actionPoints = @ - 1]] :
          c \in RandomSponsorCost }
  IN IF ~canMarkAward(prev, awardId)
     THEN { prev }
     ELSE CASE cost.type = "discard" ->
                 UNION { paid([currentPlayer EXCEPT !.hand = h]) :
                         h \in SpliceLoop(currentPlayer.hand, cost.amount) }
            [] cost.type = "resource" /\ cost.resourceType # None ->
                 IF AtLeast(currentPlayer.resources, cost.resourceType, cost.amount)
                 THEN paid([currentPlayer EXCEPT
                              !.resources[cost.resourceType] = @ - cost.amount])
                 ELSE { marked }
            [] cost.type = "factory" /\ cost.resourceType # None ->
                 IF AtLeast(currentPlayer.factories, cost.resourceType, cost.amount)
                 THEN paid([currentPlayer EXCEPT
                              !.factories[cost.resourceType] = @ - cost.amount])
                 ELSE { marked }
            [] OTHER -> paid(currentPlayer)

(***************************************************************************)
(* Innate actions.                                                         *)
(***************************************************************************)
\* One list generateInnateActions can produce, in the order generated: the
\* random draws of the generators are fixed to these outcomes.  `count` is
\* the number of cards the effect moves, `gain` the amount it grants and
\* `target` the resource type granted (None: cards or victory points).
ActionCatalogue ==
  << [ id |-> 1, type |-> "burn",
       cost |-> [type |-> "card", amount |-> 2, resourceType |-> None],
       count |-> 2, gain |-> 2, target |-> None ],
     [ id |-> 2, type |-> "draw",
       cost |-> [type |-> "actionPoints", amount |-> 1, resourceType |-> None],
       count |-> 2, gain |-> 0, target |-> None ],
     [ id |-> 3, type |-> "convert",
       cost |-> [type |-> "resource", amount |-> 2, resourceType |-> "stone"],
       count |-> 0, gain |-> 1, target |-> "brick" ],
     [ id |-> 4, type |-> "buildFactory",
       cost |-> [type |-> "resource", amount |-> 5, resourceType |-> "wood"],
       count |-> 0, gain |-> 1, target |-> "wood" ],
     [ id |-> 5, type |-> "exchange",
       cost |-> [type |-> "resource", amount |-> 1, resourceType |-> "brick"],
       count |-> 0, gain |-> 1, target |-> None ],
     [ id |-> 6, type |-> "discard",
       cost |-> [type |-> "card", amount |-> 2, resourceType |-> None],
       count |-> 2, gain |-> 2, target |-> "stone" ],
     [ id |-> 7, type |-> "swapCards",
       cost |-> [type |-> "actionPoints", amount |-> 1, resourceType |-> None],
       count |-> 1, gain |-> 0, target |-> None ] >>

\* gameState.innateActions: config.innateActionCount generated actions
generateInnateActions(cfg) ==
  { ActionCatalogue[i] : i \in 1..cfg.innateActionCount }

\* the outcomes of `count` iterations of: if the hand is not empty, move the
\* card at a random index of the hand to the end of the pool (no owner stamp)
RECURSIVE GiveLoop(_, _, _)
GiveLoop(pool, hand, count) ==
  IF count = 0 \/ Len(hand) = 0
  THEN { [pool |-> pool, hand |-> hand] }
  ELSE UNION { GiveLoop(Append(pool, hand[i]), RemoveAt(hand, i), count - 1) :
               i \in 1..Len(hand) }

\* SwapLoop writing the current player's card to both hands
RECURSIVE SwapLoop_CopyNotSwap(_, _, _)
SwapLoop_CopyNotSwap(mine, theirs, count) ==
  IF count = 0 \/ Len(mine) = 0 \/ Len(theirs) = 0
  THEN { [mine |-> mine, theirs |-> theirs] }
  ELSE UNION { SwapLoop_CopyNotSwap(mine, [theirs EXCEPT ![j] = mine[i]], count - 1) :
               i \in 1..Len(mine), j \in 1..Len(theirs) }

\* the outcomes of `count` iterations of: if both hands are not empty, swap
\* the cards at a random index of each
RECURSIVE SwapLoop(_, _, _)
SwapLoop(mine, theirs, count) ==
  IF count = 0 \/ Len(mine) = 0 \/ Len(theirs) = 0
  THEN { [mine |-> mine, theirs |-> theirs] }
  ELSE UNION { SwapLoop([mine EXCEPT ![i] = theirs[j]],
                        [theirs EXCEPT ![j] = mine[i]], count - 1) :
               i \in 1..Len(mine), j \in 1..Len(theirs) }

\* the same loop when the next player is the current player: the two shallow
\* copies share one hand array, and the swap is between two of its indices
RECURSIVE SwapWithin(_, _)
SwapWithin(hand, count) ==
  IF count = 0 \/ Len(hand) = 0
  THEN { hand }
  ELSE UNION { SwapWithin([hand EXCEPT ![i] = hand[j], ![j] = hand[i]], count - 1) :
               i \in 1..Len(hand), j \in 1..Len(hand) }

\* ActionEffect with a buildFactory effect that does not test the resources
ActionEffect_BuildUnchecked(action, prev) ==
  LET cur == prev.currentPlayer
      player == prev.players[cur]
      next == (cur + 1) % Cardinality(DOMAIN prev.players)
      moved(r) == [prev EXCEPT !.cardPool = r.pool, !.players[cur].hand = r.hand]
  IN CASE action.type = "draw" ->
            { moved(r) : r \in DrawLoop(prev.cardPool, player.hand, action.count) }
       [] action.type = "discard" ->
            { [moved(r) EXCEPT !.players[cur].resources[action.target] = @ + action.gain] :
              r \in GiveLoop(prev.cardPool, player.hand, action.count) }
       [] action.type = "burn" ->
            { [prev EXCEPT !.players[cur].hand = h,
                           !.players[cur].victoryPoints = @ + action.gain] :
              h \in SpliceLoop(player.hand, action.count) }
       [] action.type = "swapCards" ->
            IF next = cur
            THEN { [prev EXCEPT !.players[cur].hand = h] :
                   h \in SwapWithin(player.hand, action.count) }
            ELSE { [prev EXCEPT !.players[cur].hand = r.mine,
                                !.players[next].hand = r.theirs] :
                   r \in SwapLoop(player.hand, prev.players[next].hand, action.count) }
       [] action.type = "convert" ->
            IF AtLeast(player.resources, action.cost.resourceType, action.cost.amount)
            THEN { [prev EXCEPT
                      !.players[cur].resources =
                          [ t \in DOMAIN @ |->
                              @[t] - (IF t = action.cost.resourceType
                                      THEN action.cost.amount ELSE 0)
                                   + (IF t = action.target THEN action.gain ELSE 0) ]] }
            ELSE { prev }
       [] action.type = "buildFactory" ->
            IF TRUE
            THEN { [prev EXCEPT
                      !.players[cur].resources[action.cost.resourceType] = @ - 5,
                      !.players[cur].factories[action.cost.resourceType] = @ + 1] }
            ELSE { prev }
       [] action.type = "exchange" ->
            LET given ==
                  IF action.cost.type = "resource" /\ action.cost.resourceType # None
                  THEN { [prev EXCEPT !.players[cur].resources[action.cost.resourceType]
                                          = @ - action.cost.amount] }
                  ELSE IF action.cost.type = "card"
                  THEN { moved(r) :
                         r \in GiveLoop(prev.cardPool, player.hand, action.cost.amount) }
                  ELSE { prev }
                received(g) ==
                  IF action.target # None
                  THEN { [g EXCEPT !.players[cur].resources[action.target]
                                       = @ + action.gain] }
                  ELSE { [g EXCEPT !.cardPool = r.pool, !.players[cur].hand = r.hand] :
                         r \in DrawLoop(g.cardPool, g.players[cur].hand, action.gain) }
            IN UNION { received(g) : g \in given }
       [] OTHER -> { prev }

\* action.effect(currentPlayer, prev): the game states it can leave, before
\* performInnateAction deducts the action point.  The effects work on the
\* arrays and maps the previous state holds.
ActionEffect(action, prev) ==
  LET cur == prev.currentPlayer
      player == prev.players[cur]
      next == (cur + 1) % Cardinality(DOMAIN prev.players)
      moved(r) == [prev EXCEPT !.cardPool = r.pool, !.players[cur].hand = r.hand]
  IN CASE action.type = "draw" ->
            { moved(r) : r \in DrawLoop(prev.cardPool, player.hand, action.count) }
       [] action.type = "discard" ->
            { [moved(r) EXCEPT !.players[cur].resources[action.target] = @ + action.gain] :
              r \in GiveLoop(prev.cardPool, player.hand, action.count) }
       [] action.type = "burn" ->
            { [prev EXCEPT !.players[cur].hand = h,
                           !.players[cur].victoryPoints = @ + action.gain] :
              h \in SpliceLoop(player.hand, action.count) }
       [] action.type = "swapCards" ->
            IF next = cur
            THEN { [prev EXCEPT !.players[cur].hand = h] :
                   h \in SwapWithin(player.hand, action.count) }
            ELSE { [prev EXCEPT !.players[cur].hand = r.mine,
                                !.players[next].hand = r.theirs] :
                   r \in SwapLoop(player.hand, prev.players[next].hand, action.count) }
       [] action.type = "convert" ->
            IF AtLeast(player.resources, action.cost.resourceType, action.cost.amount)
            THEN { [prev EXCEPT
                      !.players[cur].resources =
                          [ t \in DOMAIN @ |->
                              @[t] - (IF t = action.cost.resourceType
                                      THEN action.cost.amount ELSE 0)
                                   + (IF t = action.target THEN action.gain ELSE 0) ]] }
            ELSE { prev }
       [] action.type = "buildFactory" ->
            IF AtLeast(player.resources, action.cost.resourceType, 5)
            THEN { [prev EXCEPT
                      !.players[cur].resources[action.cost.resourceType] = @ - 5,
                      !.players[cur].factories[action.cost.resourceType] = @ + 1] }
            ELSE { prev }
       [] action.type = "exchange" ->
            LET given ==
                  IF action.cost.type = "resource" /\ action.cost.resourceType # None
                  THEN { [prev EXCEPT !.players[cur].resources[action.cost.resourceType]
                                          = @ - action.cost.amount] }
                  ELSE IF action.cost.type = "card"
                  THEN { moved(r) :
                         r \in GiveLoop(prev.cardPool, player.hand, action.cost.amount) }
                  ELSE { prev }
                received(g) ==
                  IF action.target # None
                  THEN { [g EXCEPT !.players[cur].resources[action.target]
                                       = @ + action.gain] }
                  ELSE { [g EXCEPT !.cardPool = r.pool, !.players[cur].hand = r.hand] :
                         r \in DrawLoop(g.cardPool, g.players[cur].hand, action.gain) }
            IN UNION { received(g) : g \in given }
       [] OTHER -> { prev }

\* the affordability check of the Game component's performInnateAction
Game_isAffordable(action, player) ==
  CASE action.cost.type = "actionPoints" -> player.actionPoints >= action.cost.amount
    [] action.cost.type = "card" -> Len(player.hand) >= action.cost.amount
    [] action.cost.type = "resource" ->
         /\ action.cost.resourceType # None
         /\ AtLeast(player.resources, action.cost.resourceType, action.cost.amount)
    [] OTHER -> FALSE

\* what performInnateAction does after its affordability check: the effect,
\* the action point, the win check
AfterAffordable(action, prev) ==
  LET cur == prev.currentPlayer
  IN { LET spent == [g EXCEPT !.players[cur].actionPoints = @ - 1]
       IN IF spent.players[cur].victoryPoints >= 10
          THEN [spent EXCEPT !.winner = spent.players[cur].id]
          ELSE spent :
       g \in ActionEffect(action, prev) }

\* Game component: the states the updater of performInnateAction(action) can
\* return
Game_performInnateAction(prev, action) ==
  IF ~Game_isAffordable(action, prev.players[prev.currentPlayer])
  THEN { prev }
  ELSE AfterAffordable(action, prev)

\* earlier variant of the Game component: a resource cost is affordable when
\* the player holds the amount of any resource type
Earlier_isAffordable(action, player) ==
  CASE action.cost.type = "actionPoints" -> player.actionPoints >= action.cost.amount
    [] action.cost.type = "card" -> Len(player.hand) >= action.cost.amount
    [] action.cost.type = "resource" ->
         \E t \in DOMAIN player.resources : player.resources[t] >= action.cost.amount
    [] OTHER -> FALSE

\* earlier variant of the Game component: the updater of performInnateAction
Earlier_performInnateAction(prev, action) ==
  IF ~Earlier_isAffordable(action, prev.players[prev.currentPlayer])
  THEN { prev }
  ELSE AfterAffordable(action, prev)

\* Actions component: isActionAffordable(action), the negation of the action
\* button's disabled attribute
isActionAffordable(action, currentPlayer) ==
  IF currentPlayer.actionPoints < 1
  THEN FALSE
  ELSE CASE action.cost.type = "actionPoints" ->
              currentPlayer.actionPoints >= action.cost.amount
         [] action.cost.type = "card" -> Len(currentPlayer.hand) >= action.cost.amount
         [] action.cost.type = "resource" ->
              IF action.cost.resourceType # None
              THEN AtLeast(currentPlayer.resources, action.cost.resourceType,
                           action.cost.amount)
              ELSE \E t \in DOMAIN currentPlayer.resources :
                     currentPlayer.resources[t] >= action.cost.amount
         [] OTHER -> FALSE

(***************************************************************************)
(* The handlers as actions.  lastOp records the last call: the entry point *)
(* and the return path it took.                                            *)
(***************************************************************************)
\* the current player's record
Current(gs) == gs.players[gs.currentPlayer]

\* the number of turns ended so far
TurnsEnded(gs, cfg) == (gs.round - 1) * cfg.players + gs.currentPlayer

InBounds == TurnsEnded(gameState, config) < MaxTurns

\* the least element of a set of ids, as a set (empty for the empty set)
First(S) == { x \in S : \A y \in S : x <= y }

\* No handler reads a project's or an award's predicate, and ids are only
\* looked up: the callers' ids are taken up to renaming, as the first claimed
\* (sponsored) one, the first unclaimed (unsponsored) one and an unknown id.
ProjectInputs ==
  {0} \cup First({ p \in ProjectIds : gameState.achievements.projects[p].claimed })
      \cup First({ p \in ProjectIds : ~gameState.achievements.projects[p].claimed })
AwardInputs ==
  {0} \cup First({ a \in AwardIds : gameState.achievements.awards[a].sponsored })
      \cup First({ a \in AwardIds : ~gameState.achievements.awards[a].sponsored })

\* Game component: playCard(cardId)
PlayCard(cardId) ==
  /\ InBounds
  /\ gameState' = Game_playCard(gameState, cardId)
  /\ lastOp' = [op |-> "playCard",
                branch |-> IF canPlay(gameState, cardId) THEN "played" ELSE "rejected"]
  /\ UNCHANGED <<generation, config, isDiscardMode, discardActionAmount, achievementClaimedThisRound>>

\* game-logic: playCard(gameState, cardId)
LogicPlayCard(cardId) ==
  /\ InBounds
  /\ gameState' = playCard(gameState, cardId)
  /\ lastOp' = [op |-> "playCard",
                branch |-> IF canPlay(gameState, cardId) THEN "played" ELSE "rejected"]
  /\ UNCHANGED <<generation, config, isDiscardMode, discardActionAmount, achievementClaimedThisRound>>

\* Game component: drawCard()
DrawCard ==
  /\ InBounds
  /\ Current(gameState).actionPoints > -MaxDebt
  /\ IF Len(gameState.cardPool) = 0
     THEN /\ lastOp' = [op |-> "drawCard", branch |-> "empty"]
          /\ UNCHANGED <<gameState, isDiscardMode, discardActionAmount>>
     ELSE /\ gameState' \in Game_drawCard(gameState, config)
          /\ lastOp' = [op |-> "drawCard", branch |-> "drawn"]
          /\ IF config.discardCardCount > 0 /\ config.discardChoice
             THEN /\ isDiscardMode' = TRUE
                  /\ discardActionAmount' = config.discardCardCount
             ELSE UNCHANGED <<isDiscardMode, discardActionAmount>>
  /\ UNCHANGED <<generation, config, achievementClaimedThisRound>>

\* game-logic: drawCards(gameState, drawCount)
LogicDrawCards(drawCount) ==
  /\ InBounds
  /\ Current(gameState).actionPoints > -MaxDebt
  /\ \E r \in drawCards(gameState, drawCount) : gameState' = r.updatedState
  /\ lastOp' = [op |-> "drawCards",
                branch |-> IF Len(gameState.cardPool) = 0 THEN "empty" ELSE "drawn"]
  /\ UNCHANGED <<generation, config, isDiscardMode, discardActionAmount, achievementClaimedThisRound>>

\* game-logic: discardCard(gameState, cardId)
LogicDiscardCard(cardId) ==
  /\ InBounds
  /\ gameState' = discardCard(gameState, cardId)
  /\ lastOp' = [op |-> "discardCard",
                branch |-> IF cardId \in Range(Current(gameState).hand)
                           THEN "discarded" ELSE "rejected"]
  /\ UNCHANGED <<generation, config, isDiscardMode, discardActionAmount, achievementClaimedThisRound>>

\* Game component: handleCardClick(cardId).  In discard mode it calls
\* discardCard(cardId), which also counts discardActionAmount down and
\* leaves discard mode at 0; otherwise it calls playCard(cardId).
HandleCardClick(cardId) ==
  IF isDiscardMode
  THEN /\ InBounds
       /\ gameState' = Game_discardCard(gameState, cardId)
       /\ discardActionAmount' = discardActionAmount - 1
       /\ isDiscardMode' = IF discardActionAmount - 1 = 0 THEN FALSE ELSE isDiscardMode
       /\ lastOp' = [op |-> "discardCard",
                     branch |-> IF cardId \in Range(Current(gameState).hand)
                                THEN "discarded" ELSE "rejected"]
       /\ UNCHANGED <<generation, config, achievementClaimedThisRound>>
  ELSE PlayCard(cardId)

\* Game component: nextTurn()
NextTurn ==
  /\ InBounds
  /\ gameState' = Game_nextTurn(gameState, config)
  /\ achievementClaimedThisRound' = FALSE
  /\ lastOp' = [op |-> "nextTurn", branch |-> "done"]
  /\ UNCHANGED <<generation, config, isDiscardMode, discardActionAmount>>

\* game-logic: nextTurn(gameState, config)
LogicNextTurn ==
  /\ InBounds
  /\ gameState' = nextTurn(gameState, config)
  /\ lastOp' = [op |-> "nextTurn", branch |-> "done"]
  /\ UNCHANGED <<generation, config, isDiscardMode, discardActionAmount, achievementClaimedThisRound>>

\* ClaimProject without the early return on achievementClaimedThisRound
ClaimProject_Ungated(projectId) ==
  /\ InBounds
  /\ gameState' = Game_claimProject(gameState, projectId)
  /\ achievementClaimedThisRound' = TRUE
  /\ lastOp' = [op |-> "claimProject",
                branch |-> IF projectId \notin ProjectIds THEN "unknown"
                           ELSE IF gameState.achievements.projects[projectId].claimed
                           THEN "alreadyClaimed"
                           ELSE "claimed"]
  /\ UNCHANGED <<generation, config, isDiscardMode, discardActionAmount>>

\* Game component: claimProject(projectId)
ClaimProject(projectId) ==
  /\ InBounds
  /\ IF achievementClaimedThisRound
     THEN /\ lastOp' = [op |-> "claimProject", branch |-> "gated"]
          /\ UNCHANGED <<gameState, achievementClaimedThisRound>>
     ELSE /\ gameState' = Game_claimProject(gameState, projectId)
          /\ achievementClaimedThisRound' = TRUE
          /\ lastOp' = [op |-> "claimProject",
                        branch |-> IF projectId \notin ProjectIds THEN "unknown"
                                   ELSE IF gameState.achievements.projects[projectId].claimed
                                   THEN "alreadyClaimed"
                                   ELSE "claimed"]
  /\ UNCHANGED <<generation, config, isDiscardMode, discardActionAmount>>

\* Game component: sponsorAward(awardId)
SponsorAward(awardId) ==
  /\ InBounds
  /\ IF achievementClaimedThisRound
     THEN /\ lastOp' = [op |-> "sponsorAward", branch |-> "gated"]
          /\ UNCHANGED <<gameState, achievementClaimedThisRound>>
     ELSE /\ gameState' \in Game_sponsorAward(gameState, awardId)
          /\ achievementClaimedThisRound' = TRUE
          /\ lastOp' = [op |-> "sponsorAward",
                        branch |-> IF ~canMarkAward(gameState, awardId) THEN "rejected"
                                   ELSE IF gameState'.achievements.sponsoredAwards
                                           = gameState.achievements.sponsoredAwards
                                   THEN "unaffordable"
                                   ELSE "sponsored"]
  /\ UNCHANGED <<generation, config, isDiscardMode, discardActionAmount>>

\* Game component: performInnateAction(action)
PerformInnateAction(action) ==
  /\ InBounds
  /\ Current(gameState).actionPoints > -MaxDebt
  /\ gameState' \in Game_performInnateAction(gameState, action)
  /\ lastOp' = [op |-> "performInnateAction",
                branch |-> IF Game_isAffordable(action, Current(gameState))
                           THEN "performed" ELSE "rejected"]
  /\ UNCHANGED <<generation, config, isDiscardMode, discardActionAmount, achievementClaimedThisRound>>

\* earlier variant of the Game component: performInnateAction(action)
EarlierPerformInnateAction(action) ==
  /\ InBounds
  /\ Current(gameState).actionPoints > -MaxDebt
  /\ gameState' \in Earlier_performInnateAction(gameState, action)
  /\ lastOp' = [op |-> "performInnateAction",
                branch |-> IF Earlier_isAffordable(action, Current(gameState))
                           THEN "performed" ELSE "rejected"]
  /\ UNCHANGED <<generation, config, isDiscardMode, discardActionAmount, achievementClaimedThisRound>>

\* Actions component: a click on the button of an action that is not
\* disabled.  onClick calls performInnateAction (onActionSelect) and then
\* decrements actionPoints on the player object of the rendered state.  React
\* runs the queued updater either inside the setGameState call (no update
\* pending: the decrement then lands on the object the new state replaced) or
\* at the next render (the updater then reads the decremented object).
ClickAction(action) ==
  /\ InBounds
  /\ isActionAffordable(action, Current(gameState))
  /\ \E eager \in BOOLEAN :
       LET clicked == [gameState EXCEPT
                         !.players[gameState.currentPlayer].actionPoints = @ - 1]
           prev == IF eager THEN gameState ELSE clicked
       IN /\ gameState' \in Game_performInnateAction(prev, action)
          /\ lastOp' = [op |-> "clickAction",
                        branch |-> IF Game_isAffordable(action, Current(prev))
                                   THEN "performed" ELSE "rejected"]
  /\ UNCHANGED <<generation, config, isDiscardMode, discardActionAmount, achievementClaimedThisRound>>

(***************************************************************************)
(* Spec: the card and turn engine.  Cards are played, drawn and turns      *)
(* ended with both implementations; projects are claimed for their         *)
(* achievement points.                                                     *)
(***************************************************************************)
Next ==
  \/ \E cardId \in CardIds : PlayCard(cardId)
  \/ \E cardId \in CardIds : LogicPlayCard(cardId)
  \/ DrawCard
  \/ NextTurn
  \/ LogicNextTurn
  \/ \E projectId \in ProjectInputs : ClaimProject(projectId)

Spec == Init /\ [][Next]_vars

(***************************************************************************)
(* SpecAchievements: projects and the gate of one achievement action per   *)
(* turn.  Projects are claimed and awards sponsored while cards are drawn  *)
(* and turns ended.                                                        *)
(***************************************************************************)
NextAchievements ==
  \/ \E projectId \in ProjectInputs : ClaimProject(projectId)
  \/ \E awardId \in AwardInputs : SponsorAward(awardId)
  \/ DrawCard
  \/ NextTurn

SpecAchievements == InitAchievements /\ [][NextAchievements]_vars

(***************************************************************************)
(* SpecSponsorship: the sponsorship of awards, with the handlers that      *)
(* change what its costs read (hands, resources, factories).               *)
(***************************************************************************)
NextSponsorship ==
  \/ \E awardId \in AwardInputs : SponsorAward(awardId)
  \/ \E cardId \in CardIds : PlayCard(cardId)
  \/ DrawCard
  \/ NextTurn

SpecSponsorship == InitAchievements /\ [][NextSponsorship]_vars

(***************************************************************************)
(* Properties of card play and of the end of a turn, checked under Spec.   *)
(***************************************************************************)
\* a step of either playCard implementation, called with cardId (lastOp'.op
\* names the handler of a step and is looked at first in the properties)
PlayStep(cardId) == PlayCard(cardId) \/ LogicPlayCard(cardId)

\* the card is in the current player's hand, the player has an action point
\* and holds the card's cost of every resource type
Playable(cardId) ==
  /\ \E i \in DOMAIN Current(gameState).hand : Current(gameState).hand[i] = cardId
  /\ Current(gameState).actionPoints > 0
  /\ \A t \in DOMAIN Card(cardId).cost :
       Current(gameState).resources[t] >= Card(cardId).cost[t]

\* the current player of the state a step leaves (playCard keeps the index)
CurrentAfter == gameState'.players[gameState.currentPlayer]

\* the amount of type t that a card costs and that it rewards
CostOf(cardId, t) == IF t \in DOMAIN Card(cardId).cost THEN Card(cardId).cost[t] ELSE 0
RewardOf(cardId, t) ==
  IF t \in DOMAIN Card(cardId).resources THEN Card(cardId).resources[t] ELSE 0

\* hand, played cards, resources, factories and victory points after an
\* affordable play
PlayedEffects(cardId) ==
  LET before == Current(gameState)
      after == CurrentAfter
  IN /\ Len(after.hand) = Len(before.hand) - 1
     /\ Range(after.hand) = Range(before.hand) \ {cardId}
     /\ after.playedCards = Append(before.playedCards, cardId)
     /\ \A t \in ActiveTypes(config.resourceTypes) :
          /\ after.resources[t] = before.resources[t] - CostOf(cardId, t)
               + (IF Card(cardId).isFactory THEN 0 ELSE RewardOf(cardId, t))
          /\ after.factories[t] = before.factories[t]
               + (IF Card(cardId).isFactory THEN RewardOf(cardId, t) ELSE 0)
     /\ after.victoryPoints = before.victoryPoints + Card(cardId).victoryPoints

\* C1: playCard leaves the whole game state unchanged, winner included, when
\* the card is not in the current player's hand, the player has no action
\* point or holds less than the card's cost of some resource type, also in
\* states where the player's victory plus achievement points are 10 or more.
C1_RejectedPlayLeavesState ==
  [][ \A cardId \in CardIds :
        (lastOp'.op = "playCard" /\ PlayStep(cardId) /\ ~Playable(cardId))
          => gameState' = gameState ]_vars

\* C2 as stated: an affordable play moves the card from the hand to the played
\* cards, deducts its cost, adds its reward to the resources (to the factories
\* for a factory card), adds its victory points, and leaves the action points
\* exactly 1 lower.
C2_PlayLowersActionPointsByOne ==
  [][ \A cardId \in CardIds :
        (lastOp'.op = "playCard" /\ PlayStep(cardId) /\ Playable(cardId))
          => /\ PlayedEffects(cardId)
             /\ CurrentAfter.actionPoints = Current(gameState).actionPoints - 1 ]_vars

\* C2: an affordable play moves the card from the hand to the played cards,
\* deducts its cost, adds its reward to the resources (to the factories for a
\* factory card) and adds its victory points; the action points are 1 lower,
\* except that a card carrying a bonus action leaves them as they were.
C2_PlayAppliesCard ==
  [][ \A cardId \in CardIds :
        (lastOp'.op = "playCard" /\ PlayStep(cardId) /\ Playable(cardId))
          => /\ PlayedEffects(cardId)
             /\ CurrentAfter.actionPoints =
                  IF Card(cardId).innateAction
                  THEN Current(gameState).actionPoints
                  ELSE Current(gameState).actionPoints - 1 ]_vars

\* a card carrying a bonus action has just been played
C2_BonusCardPlayed ==
  /\ lastOp = [op |-> "playCard", branch |-> "played"]
  /\ Len(Current(gameState).playedCards) > 0
  /\ LET played == Current(gameState).playedCards
     IN Card(played[Len(played)]).innateAction

\* C3: a successful playCard that leaves the current player with victory plus
\* achievement points of 10 or more sets winner to that player's id; one that
\* leaves the sum below 10 leaves winner as it was.
C3_WinnerAtTenPoints ==
  [][ \A cardId \in CardIds :
        (lastOp'.op = "playCard" /\ PlayStep(cardId) /\ Playable(cardId))
          => IF CurrentAfter.victoryPoints + CurrentAfter.achievementPoints >= 10
             THEN gameState'.winner = CurrentAfter.id
             ELSE gameState'.winner = gameState.winner ]_vars

\* a play has just made the current player the winner, with the achievement
\* points needed to reach 10
C3_WonByPlay ==
  /\ lastOp = [op |-> "playCard", branch |-> "played"]
  /\ gameState.winner = Current(gameState).id
  /\ Current(gameState).victoryPoints < 10
  /\ Current(gameState).victoryPoints + Current(gameState).achievementPoints >= 10

\* C10: an end of turn that wraps the turn order to player 0 adds, for every
\* player and every active resource type, the player's factory count of the
\* type to the player's resource count, and leaves the factory counts.
C10_WrapProducesResources ==
  [][ ( lastOp'.op = "nextTurn"
        /\ (gameState.currentPlayer + 1) % config.players = 0 )
        => \A i \in DOMAIN gameState.players :
             /\ gameState'.players[i].factories = gameState.players[i].factories
             /\ \A t \in ActiveTypes(config.resourceTypes) :
                  gameState'.players[i].resources[t] =
                    gameState.players[i].resources[t] + gameState.players[i].factories[t]
    ]_vars

\* a turn that wrapped to player 0 has just ended with a factory standing
C10_WrappedWithFactory ==
  /\ lastOp.op = "nextTurn"
  /\ gameState.currentPlayer = 0
  /\ \E i \in DOMAIN gameState.players :
       \E t \in ActiveTypes(config.resourceTypes) :
         gameState.players[i].factories[t] > 0

(***************************************************************************)
(* Properties of projects and of the gate, checked under SpecAchievements, *)
(* and of awards (C7, C8), checked under SpecSponsorship.                  *)
(***************************************************************************)
\* the projects claimed and the awards flagged as sponsored
ClaimedProjectIds == { p \in ProjectIds : gameState.achievements.projects[p].claimed }
SponsoredAwardIds == { a \in AwardIds : gameState.achievements.awards[a].sponsored }

\* every player's achievement points and action points are as they were
PointsUnchanged ==
  \A i \in DOMAIN gameState.players :
    /\ gameState'.players[i].achievementPoints = gameState.players[i].achievementPoints
    /\ gameState'.players[i].actionPoints = gameState.players[i].actionPoints

\* C4: claimProject for a project that is already claimed, by any player in
\* any later turn, is a no-op: the project stays claimed by the same player,
\* claimedProjects and every player's achievement and action points stay.
C4_ReclaimIsNoOp ==
  [][ \A projectId \in ProjectIds :
        (lastOp'.op = "claimProject" /\ ClaimProject(projectId) /\ gameState.achievements.projects[projectId].claimed)
          => /\ gameState'.achievements.projects = gameState.achievements.projects
             /\ gameState'.achievements.claimedProjects
                  = gameState.achievements.claimedProjects
             /\ PointsUnchanged ]_vars

\* claimProject has just run its updater on a project another player claimed
C4_ReclaimedByOther ==
  /\ lastOp = [op |-> "claimProject", branch |-> "alreadyClaimed"]
  /\ ClaimedProjectIds # {}
  /\ \A p \in ClaimedProjectIds :
       gameState.achievements.projects[p].claimedBy # gameState.currentPlayer

\* C5: claimProject is a no-op (the project stays unclaimed, no achievement
\* points are awarded, no action point is deducted) when the project's
\* completion predicate is false for the current player.
C5_IncompleteClaimIsNoOp ==
  [][ \A projectId \in ProjectIds :
        ( lastOp'.op = "claimProject"
          /\ ClaimProject(projectId)
          /\ ~isCompleted(projectId, Current(gameState), gameState) )
          => /\ gameState'.achievements.projects[projectId]
                  = gameState.achievements.projects[projectId]
             /\ PointsUnchanged ]_vars

\* C6: a successful claimProject awards the current player 7 achievement
\* points when no project was claimed before in the game, 5 when one was, 3
\* when two or more were; it sets claimedBy to the current player, adds 1 to
\* claimedProjects and deducts exactly 1 action point.
C6_ClaimAwardsByRank ==
  [][ \A projectId \in ProjectIds :
        ( /\ lastOp'.op = "claimProject"
          /\ ClaimProject(projectId)
          /\ ~achievementClaimedThisRound
          /\ ~gameState.achievements.projects[projectId].claimed )
          => LET rank == Cardinality(ClaimedProjectIds) + 1
                 value == IF rank = 1 THEN 7 ELSE IF rank = 2 THEN 5 ELSE 3
             IN /\ CurrentAfter.achievementPoints
                     = Current(gameState).achievementPoints + value
                /\ CurrentAfter.actionPoints = Current(gameState).actionPoints - 1
                /\ gameState'.achievements.projects[projectId]
                     = [claimed |-> TRUE, claimedBy |-> gameState.currentPlayer]
                /\ gameState'.achievements.claimedProjects
                     = gameState.achievements.claimedProjects + 1 ]_vars

\* the third project of the game has just been claimed
C6_ThirdClaim ==
  /\ lastOp = [op |-> "claimProject", branch |-> "claimed"]
  /\ gameState.achievements.claimedProjects = 3
  /\ Cardinality(ClaimedProjectIds) = 3

\* C7: in every reachable state at most 3 awards are sponsored.
C7_AtMostThreeSponsored == Cardinality(SponsoredAwardIds) <= 3

\* C8: sponsorAward leaves the game state unchanged when the current player
\* cannot afford the active sponsorship cost: fewer cards in hand than a
\* discard cost, less of the resource than a resource cost, fewer factories
\* of the type than a factory cost.
C8_UnaffordableSponsorIsNoOp ==
  [][ \A awardId \in AwardIds :
        ( lastOp'.op = "sponsorAward"
          /\ SponsorAward(awardId)
          /\ ~canSponsorAward(gameState.achievements.sponsorCost, Current(gameState)) )
          => gameState' = gameState ]_vars

\* C9: between two ends of turn at most one achievement action succeeds: a
\* claimProject or sponsorAward call made while the gate is closed is a no-op,
\* a call that changes the game state finds the gate open and closes it, the
\* gate stays closed until the turn ends, and the end of the turn opens it.
C9_OneAchievementPerTurn ==
  [][ LET achievementCall == lastOp'.op \in {"claimProject", "sponsorAward"}
          endTurn == lastOp'.op = "nextTurn"
      IN /\ (achievementCall /\ achievementClaimedThisRound)
              => (gameState' = gameState /\ achievementClaimedThisRound')
         /\ (achievementCall /\ gameState' # gameState)
              => (~achievementClaimedThisRound /\ achievementClaimedThisRound')
         /\ (achievementClaimedThisRound /\ ~endTurn) => achievementClaimedThisRound'
         /\ endTurn => ~achievementClaimedThisRound' ]_vars

\* in a turn after the first, the second achievement action of the game has
\* succeeded and a further call has been turned away
C9_TurnedAwayAfterSecondSuccess ==
  /\ lastOp.branch = "gated"
  /\ TurnsEnded(gameState, config) >= 1
  /\ gameState.achievements.claimedProjects + gameState.achievements.sponsoredAwards = 2

(***************************************************************************)
(* Properties of the end of a turn, checked under Spec.                    *)
(***************************************************************************)
\* C11: an end of turn that does not wrap to player 0 leaves every player's
\* resources unchanged, so that factories produce once per full round.
C11_NoProductionInsideRound ==
  [][ ( lastOp'.op = "nextTurn"
        /\ (gameState.currentPlayer + 1) % config.players # 0 )
        => \A i \in DOMAIN gameState.players :
             gameState'.players[i].resources = gameState.players[i].resources ]_vars

\* C12: the end of a turn sets currentPlayer to (currentPlayer + 1) mod
\* players, adds 1 to round exactly when the new current player is 0, resets
\* only the new current player's action points to actionPointsPerTurn, and
\* leaves the pool, hands, played cards, victory and achievement points,
\* achievements and winner unchanged.
C12_EndTurnAdvances ==
  [][ lastOp'.op = "nextTurn"
        => LET nextPlayer == (gameState.currentPlayer + 1) % config.players
           IN /\ gameState'.currentPlayer = nextPlayer
              /\ gameState'.round =
                   IF nextPlayer = 0 THEN gameState.round + 1 ELSE gameState.round
              /\ \A i \in DOMAIN gameState.players :
                   /\ gameState'.players[i].actionPoints =
                        IF i = nextPlayer THEN config.actionPointsPerTurn
                        ELSE gameState.players[i].actionPoints
                   /\ gameState'.players[i].hand = gameState.players[i].hand
                   /\ gameState'.players[i].playedCards = gameState.players[i].playedCards
                   /\ gameState'.players[i].victoryPoints
                        = gameState.players[i].victoryPoints
                   /\ gameState'.players[i].achievementPoints
                        = gameState.players[i].achievementPoints
              /\ gameState'.cardPool = gameState.cardPool
              /\ gameState'.lastOwnerId = gameState.lastOwnerId
              /\ gameState'.achievements = gameState.achievements
              /\ gameState'.winner = gameState.winner ]_vars

\* a turn has just ended inside a round, after the player who ended it had
\* spent action points and played a card
C12_EndedInsideRound ==
  /\ lastOp.op = "nextTurn"
  /\ gameState.currentPlayer = 1
  /\ gameState.round = 2
  /\ gameState.players[0].actionPoints < config.actionPointsPerTurn
  /\ Len(gameState.players[0].playedCards) > 0

(***************************************************************************)
(* SpecActions: innate actions called through performInnateAction, with    *)
(* the handlers that give the players resources and achievement points.    *)
(***************************************************************************)
\* the first three generated innate actions (one of each cost type); the
\* deal is the one of InitAchievements
InitActions ==
  InitWith(ActionsConfig,
           InitialGameStates(
             { d \in Deals(ActionsConfig) :
                 d.updatedPlayers[0].hand = <<0>> /\ d.updatedCardPool = <<1, 2>> },
             { a \in generateAchievements : a.sponsorCost = SponsorCosts[1] }))

NextActions ==
  \/ \E action \in generateInnateActions(config) : PerformInnateAction(action)
  \/ \E action \in generateInnateActions(config) : EarlierPerformInnateAction(action)
  \/ \E cardId \in CardIds : PlayCard(cardId)
  \/ \E projectId \in ProjectInputs : ClaimProject(projectId)
  \/ NextTurn

SpecActions == InitActions /\ [][NextActions]_vars

(***************************************************************************)
(* SpecButtons: innate actions triggered by the buttons of the Actions     *)
(* component, with card play and the end of the turn.                      *)
(***************************************************************************)
\* the seven generated innate actions; the deal is the one of InitAchievements
InitButtons ==
  InitWith(ButtonsConfig,
           InitialGameStates(
             { d \in Deals(ButtonsConfig) :
                 d.updatedPlayers[0].hand = <<0>> /\ d.updatedCardPool = <<1, 2>> },
             { a \in generateAchievements : a.sponsorCost = SponsorCosts[1] }))

NextButtons ==
  \/ \E action \in generateInnateActions(config) : ClickAction(action)
  \/ \E cardId \in CardIds : PlayCard(cardId)
  \/ NextTurn

SpecButtons == InitButtons /\ [][NextButtons]_vars

(***************************************************************************)
(* SpecDiscard: drawing and discarding under the two configurations that   *)
(* require discards after a draw, with both implementations.               *)
(***************************************************************************)
InitDiscard ==
  \E cfg \in {DiscardChoiceConfig, AutoDiscardConfig} :
    InitWith(cfg,
             InitialGameStates(
               { d \in Deals(cfg) : d.updatedPlayers[0].hand = <<0>> },
               { a \in generateAchievements : a.sponsorCost = SponsorCosts[1] }))

NextDiscard ==
  \/ DrawCard
  \/ \E cardId \in CardIds : HandleCardClick(cardId)
  \/ \E cardId \in CardIds : LogicDiscardCard(cardId)
  \/ NextTurn

SpecDiscard == InitDiscard /\ [][NextDiscard]_vars

(***************************************************************************)
(* SpecDraws: drawing with no discard required afterwards, with both       *)
(* implementations; the library's discardCard returns cards to the pool.   *)
(***************************************************************************)
InitDraws ==
  InitWith(DrawTwoConfig,
           InitialGameStates(
             { d \in Deals(DrawTwoConfig) : d.updatedPlayers[0].hand = <<0>> },
             { a \in generateAchievements : a.sponsorCost = SponsorCosts[1] }))

NextDraws ==
  \/ \E drawCount \in 1..MaxDraw : LogicDrawCards(drawCount)
  \/ DrawCard
  \/ \E cardId \in CardIds : LogicDiscardCard(cardId)
  \/ LogicNextTurn

SpecDraws == InitDraws /\ [][NextDraws]_vars

(***************************************************************************)
(* Properties of innate actions, checked under SpecActions (C13, C15) and  *)
(* SpecButtons (C14).                                                      *)
(***************************************************************************)
\* C13: a successful innate action that leaves the acting player with
\* victory plus achievement points of 10 or more sets winner to that player.
C13_WinnerAfterInnateAction ==
  [][ ( lastOp' = [op |-> "performInnateAction", branch |-> "performed"]
        /\ CurrentAfter.victoryPoints + CurrentAfter.achievementPoints >= 10 )
        => gameState'.winner = CurrentAfter.id ]_vars

\* C14: a successful innate action triggered by a click on its button lowers
\* the acting player's action points by exactly 1 in total.
C14_ClickCostsOneActionPoint ==
  [][ lastOp' = [op |-> "clickAction", branch |-> "performed"]
        => CurrentAfter.actionPoints = Current(gameState).actionPoints - 1 ]_vars

\* the declared cost of an action is covered: the action points, the number
\* of cards in hand, or the amount of the declared resource type
CoversDeclaredCost(action) ==
  CASE action.cost.type = "actionPoints" ->
         Current(gameState).actionPoints >= action.cost.amount
    [] action.cost.type = "card" ->
         Len(Current(gameState).hand) >= action.cost.amount
    [] action.cost.type = "resource" ->
         /\ action.cost.resourceType \in DOMAIN Current(gameState).resources
         /\ Current(gameState).resources[action.cost.resourceType] >= action.cost.amount

\* C15: performInnateAction returns the state unchanged when the declared
\* cost of the action is not covered; holding enough of another resource
\* type does not cover a resource cost.
C15_UnaffordableActionIsNoOp ==
  [][ \A action \in generateInnateActions(config) :
        ( /\ lastOp'.op = "performInnateAction"
          /\ PerformInnateAction(action) \/ EarlierPerformInnateAction(action)
          /\ ~CoversDeclaredCost(action) )
          => gameState' = gameState ]_vars

(***************************************************************************)
(* Properties of drawing and discarding.                                   *)
(***************************************************************************)
Min(a, b) == IF a <= b THEN a ELSE b

\* what a draw of count cards in state gs may return: the state itself and
\* no card when the pool is empty; otherwise min(count, pool size) distinct
\* cards of the pool, now at the end of the current player's hand and no
\* longer in the pool, for one action point
DrawContract(gs, count, updatedState, drawnCards) ==
  LET cur == gs.currentPlayer
      n == Min(count, Len(gs.cardPool))
  IN IF Len(gs.cardPool) = 0
     THEN updatedState = gs /\ drawnCards = <<>>
     ELSE /\ Len(drawnCards) = n
          /\ Cardinality(Range(drawnCards)) = n
          /\ Range(drawnCards) \subseteq Range(gs.cardPool)
          /\ Len(updatedState.cardPool) = Len(gs.cardPool) - n
          /\ Range(updatedState.cardPool) = Range(gs.cardPool) \ Range(drawnCards)
          /\ updatedState.players[cur].hand = gs.players[cur].hand \o drawnCards
          /\ updatedState.players[cur].actionPoints = gs.players[cur].actionPoints - 1

\* C16: drawCards(state, count) returns the state unchanged and an empty
\* drawn list when the pool is empty; otherwise it moves exactly
\* min(count, pool size) distinct cards from the pool into the current
\* player's hand, lists exactly those cards as drawn, and deducts exactly 1
\* action point for the whole batch.  The Game component's drawCard does the
\* same with count = drawCardCount when no discard is configured.
C16_DrawMovesCards ==
  /\ [](\A count \in 1..MaxDraw : \A r \in drawCards(gameState, count) :
          DrawContract(gameState, count, r.updatedState, r.drawnCards))
  /\ [][ lastOp'.op = "drawCard"
           => DrawContract(gameState, config.drawCardCount, gameState',
                           SubSeq(CurrentAfter.hand, Len(Current(gameState).hand) + 1,
                                  Len(CurrentAfter.hand))) ]_vars

\* drawCards has just emptied the pool into a hand that now holds at least
\* two cards, for one action point
C16_DrewTheWholePool ==
  /\ lastOp = [op |-> "drawCards", branch |-> "drawn"]
  /\ Len(gameState.cardPool) = 0
  /\ Len(Current(gameState).hand) >= 2
  /\ Current(gameState).actionPoints = config.actionPointsPerTurn - 1

\* the game state after exactly the card cardId has moved from the current
\* player's hand to the end of the pool, stamped with that player's id
Discarded(gs, cardId) ==
  [gs EXCEPT !.players[gs.currentPlayer].hand = SelectSeq(@, LAMBDA c : c # cardId),
             !.cardPool = Append(@, cardId),
             !.lastOwnerId[cardId] = gs.players[gs.currentPlayer].id]

C18_DiscardPendingBlocksActions ==
  [][ ( /\ isDiscardMode
        /\ lastOp'.op \in {"playCard", "drawCard", "performInnateAction", "clickAction",
                           "claimProject", "sponsorAward", "nextTurn"} )
        => /\ gameState' = gameState
           /\ isDiscardMode' /\ discardActionAmount' = discardActionAmount ]_vars

DealConfigs ==
  { [GameConfig EXCEPT !.totalCards = t, !.startingHand = h] : t \in {3, 4}, h \in {1, 2} }

InitDeal ==
  \E cfg \in DealConfigs :
    InitWith(cfg, { gs \in createInitialGameState(cfg) :
                      gs.achievements.sponsorCost = SponsorCosts[1] })

NextDeal ==
  \/ \E cardId \in CardIds : LogicPlayCard(cardId)
  \/ LogicNextTurn

SpecDeal == InitDeal /\ [][NextDeal]_vars

\* the number of cards in each hand
HandSizes(gs) == [ i \in DOMAIN gs.players |-> Len(gs.players[i].hand) ]

\* C20: the initial state has currentPlayer = 0, round = 1, no winner, every
\* player's actionPoints = actionPointsPerTurn and victory and achievement
\* points 0; when totalCards >= players * startingHand every hand has exactly
\* startingHand cards, the pool has totalCards - players * startingHand
\* cards, and the hands and the pool are pairwise disjoint.
C20_InitialState ==
  lastOp.op = "init" =>
    /\ gameState.currentPlayer = 0
    /\ gameState.round = 1
    /\ gameState.winner = NoPlayer
    /\ \A i \in DOMAIN gameState.players :
         /\ gameState.players[i].actionPoints = config.actionPointsPerTurn
         /\ gameState.players[i].victoryPoints = 0
         /\ gameState.players[i].achievementPoints = 0
    /\ config.totalCards >= config.players * config.startingHand =>
         /\ \A i \in DOMAIN gameState.players :
              /\ Len(gameState.players[i].hand) = config.startingHand
              /\ Cardinality(Range(gameState.players[i].hand)) = config.startingHand
              /\ Range(gameState.players[i].hand) \cap Range(gameState.cardPool) = {}
              /\ \A j \in DOMAIN gameState.players :
                   i # j => Range(gameState.players[i].hand)
                              \cap Range(gameState.players[j].hand) = {}
         /\ Len(gameState.cardPool)
              = config.totalCards - config.players * config.startingHand
         /\ Cardinality(Range(gameState.cardPool)) = Len(gameState.cardPool)

\* an initial state of four cards dealt in hands of two: the pool is empty
C20_DealtTheWholeDeck ==
  /\ lastOp.op = "init"
  /\ config.totalCards = 4 /\ config.startingHand = 2
  /\ gameState.cardPool = <<>>
  /\ HandSizes(gameState) = [ i \in DOMAIN gameState.players |-> 2 ]

(***************************************************************************)
(* SpecTypes: the Game component under configurations of three cards with  *)
(* 1..MaxResourceTypes resource types.  No card is played, so the          *)
(* resources the cards of the deck name play no part.                      *)
(***************************************************************************)
TypesConfigs ==
  { [GameConfig EXCEPT !.resourceTypes = n, !.totalCards = 3] : n \in 1..MaxResourceTypes }

InitTypes ==
  \E cfg \in TypesConfigs :
    InitWith(cfg, InitialGameStates({ d \in Deals(cfg) : d.updatedPlayers[0].hand = <<0>> },
                                    generateAchievements))

NextTypes ==
  \/ DrawCard
  \/ \E projectId \in ProjectInputs : ClaimProject(projectId)
  \/ \E awardId \in AwardInputs : SponsorAward(awardId)
  \/ NextTurn

SpecTypes == InitTypes /\ [][NextTypes]_vars

\* the first n entries of the enumeration of resource types
FirstTypes(n) == { t \in Range(AllResourceTypes) :
                     \E i \in 1..n : i <= Len(AllResourceTypes) /\ AllResourceTypes[i] = t }

\* C21: for every configuration with resourceTypes = N, each player's initial
\* resources map and factories map have exactly the first N canonical
\* resource types as keys, each with value 0.
C21_InitialMapsOverActiveTypes ==
  lastOp.op = "init" =>
    \A i \in DOMAIN gameState.players :
      /\ DOMAIN gameState.players[i].resources = FirstTypes(config.resourceTypes)
      /\ DOMAIN gameState.players[i].factories = FirstTypes(config.resourceTypes)
      /\ \A t \in FirstTypes(config.resourceTypes) :
           /\ gameState.players[i].resources[t] = 0
           /\ gameState.players[i].factories[t] = 0

\* an initial state of a game of two resource types
C21_StartedWithTwoTypes ==
  /\ lastOp.op = "init"
  /\ config.resourceTypes = 2
  /\ DOMAIN gameState.players[0].resources = {"wood", "brick"}

\* the card ids found in the pool and the hands
DealtCards(gs) ==
  Range(gs.cardPool) \cup UNION { Range(gs.players[i].hand) : i \in DOMAIN gs.players }

\* C22: generateCards returns exactly totalCards cards whose ids are exactly
\* 0..totalCards-1 with no duplicates, for every totalCards >= 1; the first
\* floor(totalCards/3) ids are tier 0, the next floor(totalCards/3) tier 1,
\* and all remaining ids tier 2.  The initial deal is made of these cards.
C22_GeneratedCards ==
  /\ \A totalCards \in 1..MaxTotalCards :
       LET cards == generateCardTiers(totalCards)
           third == totalCards \div 3
       IN /\ Len(cards) = totalCards
          /\ { cards[i].id : i \in DOMAIN cards } = 0..(totalCards - 1)
          /\ \A i, j \in DOMAIN cards : cards[i].id = cards[j].id => i = j
          /\ \A i \in DOMAIN cards :
               cards[i].tier = IF cards[i].id < third THEN 0
                               ELSE IF cards[i].id < 2 * third THEN 1
                               ELSE 2
  /\ lastOp.op = "init" => DealtCards(gameState) = 0..(config.totalCards - 1)

\* an initial state of a deck of four cards, a total not divisible by 3:
\* the card with the remaining id 3 is there and is of tier 2
C22_DealtFourCards ==
  /\ lastOp.op = "init"
  /\ config.totalCards = 4
  /\ 3 \in DealtCards(gameState)
  /\ generateCardTiers(config.totalCards)[4] = [id |-> 3, tier |-> 2]

(***************************************************************************)
(* SpecExchange: both variants of performInnateAction over five generated  *)
(* innate actions (burn, draw, convert, buildFactory, exchange), with card *)
(* play and the end of the turn.                                           *)
(***************************************************************************)
InitExchange ==
  InitWith(ExchangeConfig,
           InitialGameStates(
             { d \in Deals(ExchangeConfig) :
                 d.updatedPlayers[0].hand = <<0>> /\ d.updatedCardPool = <<1, 2>> },
             { a \in generateAchievements : a.sponsorCost = SponsorCosts[1] }))

NextExchange ==
  \/ \E action \in generateInnateActions(config) : PerformInnateAction(action)
  \/ \E action \in generateInnateActions(config) : EarlierPerformInnateAction(action)
  \/ \E cardId \in CardIds : PlayCard(cardId)
  \/ NextTurn

SpecExchange == InitExchange /\ [][NextExchange]_vars

\* C23: in every reachable state, every player's count of every resource
\* type and every factory type is >= 0.
C23_AmountsNeverNegative ==
  \A i \in DOMAIN gameState.players :
    /\ \A t \in DOMAIN gameState.players[i].resources :
         gameState.players[i].resources[t] >= 0
    /\ \A t \in DOMAIN gameState.players[i].factories :
         gameState.players[i].factories[t] >= 0

\* C24: every engine operation treats its input GameState as immutable:
\* after playCard, drawCards or discardCard returns, the state value that
\* was passed in still has the contents it had before the call.
C24_InputStateIntact ==
  /\ \A cardId \in CardIds :
       /\ playCard_input(gameState, cardId) = gameState
       /\ discardCard_input(gameState, cardId) = gameState
  /\ \A drawCount \in 1..MaxDraw :
       \A after \in drawCards_input(gameState, drawCount) : after = gameState

\* C25: project claims are monotonic: once a project's claimed flag is true
\* it is never reset to false and its claimedBy never changes.
C25_ClaimsAreMonotonic ==
  [][ \A p \in ProjectIds :
        gameState.achievements.projects[p].claimed
          => /\ gameState'.achievements.projects[p].claimed
             /\ gameState'.achievements.projects[p].claimedBy
                  = gameState.achievements.projects[p].claimedBy ]_vars

\* two projects are claimed, by different players, and the turn has ended
\* since
C25_TwoClaimsKept ==
  /\ lastOp.op = "nextTurn"
  /\ \E p, q \in ProjectIds :
       /\ gameState.achievements.projects[p].claimed
       /\ gameState.achievements.projects[p].claimedBy = 0
       /\ gameState.achievements.projects[q].claimed
       /\ gameState.achievements.projects[q].claimedBy = 1

\* C26: GameOver is terminal: once winner is set to a player id, no
\* subsequent operation changes winner or any other part of the game state.
C26_GameOverIsTerminal ==
  [][ gameState.winner # NoPlayer => gameState' = gameState ]_vars

\* the number of places (pool, hands, played cards) a card id is found at
Places(gs, c) ==
  Cardinality({ i \in DOMAIN gs.cardPool : gs.cardPool[i] = c })
  + Cardinality({ <<p, i>> \in (DOMAIN gs.players) \X (1..Cardinality(CardIds)) :
                    i \in DOMAIN gs.players[p].hand /\ gs.players[p].hand[i] = c })
  + Cardinality({ <<p, i>> \in (DOMAIN gs.players) \X (1..Cardinality(CardIds)) :
                    i \in DOMAIN gs.players[p].playedCards
                      /\ gs.players[p].playedCards[i] = c })

\* C27: cards are conserved: with no burn action, every generated card id is
\* found in the pool, a hand or a player's played cards, in exactly one
\* place; in particular paying a discard-type sponsorship cost returns the
\* discarded cards to the pool.
C27_CardsConserved ==
  \A c \in 0..(config.totalCards - 1) : Places(gameState, c) = 1

\* the players whose metric for an award is maximal
Leaders(awardId, players) ==
  { i \in DOMAIN players :
      \A j \in DOMAIN players : Metric(awardId, players[j]) <= Metric(awardId, players[i]) }

\* C28: for each of the five awards, evaluate(players) returns the index of
\* a player whose metric is maximal over all players, and among several
\* players tied for the maximum the lowest index.
C28_EvaluateFirstOfLeaders ==
  \A a \in AwardIds :
    /\ evaluate(a, gameState.players) \in Leaders(a, gameState.players)
    /\ \A i \in Leaders(a, gameState.players) : evaluate(a, gameState.players) <= i

\* C28, amended: for each of the five awards, evaluate(players) returns the
\* index of a player whose metric is maximal over all players, and among
\* several players tied for the maximum the highest index (the reduction
\* replaces the accumulator unless it is strictly greater).
C28_EvaluateLastOfLeaders ==
  \A a \in AwardIds :
    /\ evaluate(a, gameState.players) \in Leaders(a, gameState.players)
    /\ \A i \in Leaders(a, gameState.players) : evaluate(a, gameState.players) >= i

\* player 0 alone has the most played cards and the most resources, player 1
\* alone the bigger hand, and both players have as many factories: awards 5
\* and 3 go to player 0, award 1 to player 1, and award 4, a tie, to player 1
C28_LeaderAndTie ==
  /\ Leaders(5, gameState.players) = {0} /\ evaluate(5, gameState.players) = 0
  /\ Leaders(3, gameState.players) = {0} /\ evaluate(3, gameState.players) = 0
  /\ Leaders(1, gameState.players) = {1} /\ evaluate(1, gameState.players) = 1
  /\ Leaders(4, gameState.players) = {0, 1} /\ evaluate(4, gameState.players) = 1

\* C29: for every configuration with resourceTypes = N (including N < 3),
\* no operation refers to a resource type outside the active set of the
\* first N types: the project completion checks and the sponsorship cost
\* name only active types, and every player's resources and factories maps
\* keep exactly the active set as keys.
C29_OnlyActiveTypes ==
  /\ \A p \in ProjectIds : projectResourceTypes(p) \subseteq FirstTypes(config.resourceTypes)
  /\ gameState.achievements.sponsorCost.resourceType # None
       => gameState.achievements.sponsorCost.resourceType \in FirstTypes(config.resourceTypes)
  /\ \A i \in DOMAIN gameState.players :
       /\ DOMAIN gameState.players[i].resources = FirstTypes(config.resourceTypes)
       /\ DOMAIN gameState.players[i].factories = FirstTypes(config.resourceTypes)

\* C30: in every reachable state every player's actionPoints is >= 0.
C30_ActionPointsNeverNegative ==
  \A i \in DOMAIN gameState.players : gameState.players[i].actionPoints >= 0

\* C31: the achievement counters agree with the records in every reachable
\* state: claimedProjects is the number of projects with claimed = true, and
\* sponsoredAwards the number of awards with sponsored = true.
C31_CountersAgreeWithRecords ==
  /\ gameState.achievements.claimedProjects
       = Cardinality({ p \in ProjectIds : gameState.achievements.projects[p].claimed })
  /\ gameState.achievements.sponsoredAwards
       = Cardinality({ a \in AwardIds : gameState.achievements.awards[a].sponsored })

\* C32: a rejected achievement action changes nothing, including the
\* once-per-turn gate: a claimProject or sponsorAward call that fails its
\* preconditions (already-claimed project, unknown id, already-sponsored
\* award, cap reached, unaffordable cost) leaves the game state as it was and
\* the gate open, so that a valid call in the same turn still succeeds.
C32_RejectedAchievementKeepsGate ==
  [][ ( /\ lastOp'.op \in {"claimProject", "sponsorAward"}
        /\ lastOp'.branch \in {"unknown", "alreadyClaimed", "rejected", "unaffordable"} )
        => /\ gameState' = gameState
           /\ achievementClaimedThisRound' = achievementClaimedThisRound ]_vars

(***************************************************************************)
(* SpecPending: the Game component under the configuration in which a draw *)
(* is followed by two discards of the player's choice.  A player in        *)
(* discard mode who holds a card goes on to click one: weak fairness of    *)
(* DiscardFromHand.                                                        *)
(***************************************************************************)
InitPending ==
  InitWith(DiscardChoiceConfig,
           InitialGameStates(
             { d \in Deals(DiscardChoiceConfig) : d.updatedPlayers[0].hand = <<0>> },
             { a \in generateAchievements : a.sponsorCost = SponsorCosts[1] }))

\* in discard mode, a click on a card of the current player's hand
DiscardFromHand ==
  /\ isDiscardMode
  /\ \E cardId \in Range(Current(gameState).hand) : HandleCardClick(cardId)

NextPending ==
  \/ DrawCard
  \/ \E cardId \in CardIds : HandleCardClick(cardId)
  \/ NextTurn

SpecPending == InitPending /\ [][NextPending]_vars /\ WF_vars(DiscardFromHand)

\* C33: discard mode always ends: while handlers are still called, a player
\* who keeps discarding whenever the hand is non-empty eventually leaves
\* discard mode with the pending count at 0, and the pending count never
\* becomes negative.
C33_DiscardPendingEnds ==
  /\ [](discardActionAmount >= 0)
  /\ (isDiscardMode /\ InBounds) ~> (~InBounds \/ (~isDiscardMode /\ discardActionAmount = 0))


MaxActionCount == 3

actionTypes ==
  {"draw", "discard", "burn", "swapCards", "convert", "buildFactory", "exchange"}

\* the state of the component before its initialisation effect has set one
BeforeInit ==
  [ cardPool |-> <<>>,
    players |-> <<>>,
    currentPlayer |-> 0,
    round |-> 1,
    winner |-> NoPlayer,
    achievements |-> [ projects |-> <<>>, awards |-> <<>>,
                       sponsorCost |-> [type |-> "discard", amount |-> 0],
                       claimedProjects |-> 0, sponsoredAwards |-> 0 ],
    lastOwnerId |-> [c \in CardIds |-> NoPlayer] ]

GenerateConfigs ==
  { [GameConfig EXCEPT !.resourceTypes = n, !.innateActionCount = k] :
      n \in 1..MaxResourceTypes, k \in 0..MaxActionCount }

\* generateInnateActions has been called and is at the head of its loop
InitGenerate ==
  /\ config \in GenerateConfigs
  /\ gameState = BeforeInit
  /\ isDiscardMode = FALSE
  /\ discardActionAmount = 0
  /\ achievementClaimedThisRound = FALSE
  /\ lastOp = [op |-> "init", branch |-> None]
  /\ generation = [pc |-> "loop", i |-> 0, actions |-> <<>>, sourceResourceType |-> None]

\* actions.push(action), i++
PushAction(actionType) ==
  generation' = [generation EXCEPT
                   !.pc = "loop",
                   !.actions = Append(@, [id |-> generation.i + 1, type |-> actionType]),
                   !.i = @ + 1,
                   !.sourceResourceType = None]

\* one pass of the loop body for a type whose generator has no loop
GenerateAction ==
  /\ generation.pc = "loop"
  /\ generation.i < config.innateActionCount
  /\ \E actionType \in actionTypes \ {"convert"} : PushAction(actionType)
  /\ UNCHANGED <<config, gameState, isDiscardMode, discardActionAmount,
                 achievementClaimedThisRound, lastOp>>

\* the loop body draws "convert": generateConvertAction draws its source type
GenerateConvertAction ==
  /\ generation.pc = "loop"
  /\ generation.i < config.innateActionCount
  /\ \E source \in ActiveTypes(config.resourceTypes) :
       generation' = [generation EXCEPT !.pc = "convertTarget",
                                        !.sourceResourceType = source]
  /\ UNCHANGED <<config, gameState, isDiscardMode, discardActionAmount,
                 achievementClaimedThisRound, lastOp>>

\* do { target = random } while (target === source): the draw equals the
\* source and the loop goes round
ConvertTargetAgain ==
  /\ generation.pc = "convertTarget"
  /\ \E target \in ActiveTypes(config.resourceTypes) :
       target = generation.sourceResourceType
  /\ UNCHANGED vars

\* the draw differs from the source: the do-while ends and the action is pushed
ConvertTargetFound ==
  /\ generation.pc = "convertTarget"
  /\ \E target \in ActiveTypes(config.resourceTypes) :
       /\ target # generation.sourceResourceType
       /\ PushAction("convert")
  /\ UNCHANGED <<config, gameState, isDiscardMode, discardActionAmount,
                 achievementClaimedThisRound, lastOp>>

\* i < config.innateActionCount fails: return actions
GenerateReturn ==
  /\ generation.pc = "loop"
  /\ ~(generation.i < config.innateActionCount)
  /\ generation' = [generation EXCEPT !.pc = "returned"]
  /\ UNCHANGED <<config, gameState, isDiscardMode, discardActionAmount,
                 achievementClaimedThisRound, lastOp>>

NextGenerate ==
  \/ GenerateAction
  \/ GenerateConvertAction
  \/ ConvertTargetAgain
  \/ ConvertTargetFound
  \/ GenerateReturn

\* the call runs on; a random draw that can differ from the source
\* eventually does
SpecGenerate ==
  /\ InitGenerate
  /\ [][NextGenerate]_vars
  /\ WF_vars(GenerateAction \/ GenerateConvertAction)
  /\ WF_vars(ConvertTargetFound)
  /\ WF_vars(GenerateReturn)

\* C35: for every resource type count of 1 or more and every innateActionCount
\* of 0 or more, generateInnateActions returns, and what it returns is exactly
\* innateActionCount actions with the ids 1..innateActionCount in order.
C35_GenerateInnateActionsReturns ==
  /\ [](generation.pc = "returned"
          => /\ Len(generation.actions) = config.innateActionCount
             /\ \A k \in 1..Len(generation.actions) : generation.actions[k].id = k)
  /\ (generation.pc = "loop") ~> (generation.pc = "returned")


(***************************************************************************)
(* SpecSwap: games of one, two and three players in which the only innate  *)
(* actions performed are swapCards actions.                                *)
(***************************************************************************)

\* generateSwapCardsAction: swapCount is 1 or 2
SwapCardsActions ==
  { [ActionCatalogue[7] EXCEPT !.count = swapCount] : swapCount \in 1..2 }

SwapConfigs ==
  { [GameConfig EXCEPT !.players = 1, !.startingHand = 3, !.innateActionCount = 7],
    [GameConfig EXCEPT !.players = 2, !.startingHand = 2, !.innateActionCount = 7],
    [GameConfig EXCEPT !.players = 3, !.startingHand = 1, !.innateActionCount = 7] }

InitSwap ==
  \E cfg \in SwapConfigs :
    InitWith(cfg, InitialGameStates(
                    Deals(cfg),
                    { a \in generateAchievements : a.sponsorCost = SponsorCosts[1] }))

NextSwap ==
  \/ \E action \in SwapCardsActions : PerformInnateAction(action)
  \/ \E cardId \in CardIds : PlayCard(cardId)
  \/ DrawCard
  \/ NextTurn

SpecSwap == InitSwap /\ [][NextSwap]_vars

\* the number of times a card occurs in a hand
Copies(hand, c) == Cardinality({ i \in DOMAIN hand : hand[i] = c })

\* C36: a swapCards action performed through performInnateAction keeps the
\* size of the acting player's hand and of the next player's hand, keeps the
\* combined cards of the two hands (none lost, none duplicated), and changes
\* no other player's hand, the pool or any played cards; with a single player
\* the hand keeps its cards.
C36_SwapConservesCards ==
  [][ (lastOp'.op = "performInnateAction" /\ lastOp'.branch = "performed")
        => LET cur == gameState.currentPlayer
               next == (cur + 1) % Cardinality(DOMAIN gameState.players)
               before == gameState.players
               after == gameState'.players
               both(ps) == IF next = cur THEN ps[cur].hand
                           ELSE ps[cur].hand \o ps[next].hand
           IN /\ Len(after[cur].hand) = Len(before[cur].hand)
              /\ Len(after[next].hand) = Len(before[next].hand)
              /\ \A c \in CardIds : Copies(both(after), c) = Copies(both(before), c)
              /\ \A p \in DOMAIN before :
                   /\ p \notin {cur, next} => after[p].hand = before[p].hand
                   /\ after[p].playedCards = before[p].playedCards
              /\ gameState'.cardPool = gameState.cardPool ]_vars

\* a swap has just exchanged cards between two hands while a third player
\* holds cards
C36_SwappedBesideThird ==
  /\ lastOp = [op |-> "performInnateAction", branch |-> "performed"]
  /\ config.players = 3
  /\ Current(gameState).hand = <<1>>
  /\ \A p \in DOMAIN gameState.players : Len(gameState.players[p].hand) > 0


(***************************************************************************)
(* SpecGiveUp: cards leave hands for the pool by discardCard and by the    *)
(* discard and exchange innate actions.                                    *)
(***************************************************************************)

GiveUpConfig == [GameConfig EXCEPT !.startingHand = 2, !.innateActionCount = 7]

\* the deals that give player 0 the cards 0 and 1
InitGiveUp ==
  InitWith(GiveUpConfig,
           InitialGameStates(
             { d \in Deals(GiveUpConfig) : d.updatedPlayers[0].hand = <<0, 1>> },
             { a \in generateAchievements : a.sponsorCost = SponsorCosts[1] }))

\* a generated discard action, and a generated exchange action that gives one
\* card and receives one card
GiveUpActions ==
  { ActionCatalogue[6],
    [ActionCatalogue[5] EXCEPT
       !.cost = [type |-> "card", amount |-> 1, resourceType |-> None]] }

NextGiveUp ==
  \/ \E action \in GiveUpActions : PerformInnateAction(action)
  \/ \E cardId \in CardIds : LogicDiscardCard(cardId)
  \/ NextTurn

SpecGiveUp == InitGiveUp /\ [][NextGiveUp]_vars

\* C37: every card that enters the pool from the current player's hand, by
\* discardCard, by the discard after a draw, by a discard innate action or by
\* the give side of an exchange, carries lastOwnerId = that player's id.
C37_GivenUpCardsCarryOwner ==
  [][ lastOp'.op \in {"discardCard", "drawCard", "performInnateAction"}
        => \A c \in Range(Current(gameState).hand) :
             (c \in Range(gameState'.cardPool) /\ c \notin Range(gameState.cardPool))
               => gameState'.lastOwnerId[c] = Current(gameState).id ]_vars


C39_BuildAndConvertAreExact ==
  [][ \A action \in { ActionCatalogue[3], ActionCatalogue[4] } :
        ( /\ lastOp'.op = "performInnateAction"
          /\ gameState' \in Game_performInnateAction(gameState, action)
                               \cup Earlier_performInnateAction(gameState, action) )
          => LET cur == gameState.currentPlayer
                 before == gameState.players[cur]
                 after == gameState'.players[cur]
                 source == action.cost.resourceType
                 amount == action.cost.amount
                 restored == [gameState' EXCEPT
                                !.players[cur].resources = before.resources,
                                !.players[cur].factories = before.factories,
                                !.players[cur].actionPoints = before.actionPoints]
             IN /\ restored = gameState
                /\ after.actionPoints \in {before.actionPoints, before.actionPoints - 1}
                /\ IF before.resources[source] >= amount
                   THEN /\ after.actionPoints = before.actionPoints - 1
                        /\ IF action.type = "buildFactory"
                           THEN /\ amount = 5
                                /\ after.resources
                                     = [before.resources EXCEPT ![source] = @ - 5]
                                /\ after.factories
                                     = [before.factories EXCEPT ![source] = @ + 1]
                           ELSE /\ action.target # source
                                /\ after.resources
                                     = [before.resources EXCEPT
                                          ![source] = @ - amount,
                                          ![action.target] = @ + action.gain]
                                /\ after.factories = before.factories
                   ELSE /\ after.resources = before.resources
                        /\ after.factories = before.factories ]_vars

\* player 0 has played card 0 for 5 wood and has just built a wood factory
\* with them
C39_FactoryBuilt ==
  /\ lastOp = [op |-> "performInnateAction", branch |-> "performed"]
  /\ Current(gameState).playedCards = <<0>>
  /\ Current(gameState).resources["wood"] = 0
  /\ Current(gameState).factories["wood"] = 1

====
